---------------------------- MODULE Spec2Model ----------------------------
(***************************************************************************)
(* LiveShifter (src/src/lib.rs): the concurrency guard, the staged pitch   *)
(* scale and the buffer-shape validation around the RubberBand live        *)
(* shifter engine.                                                         *)
(*                                                                         *)
(* One LiveShifter instance is shared by Threads.  Every atomic load,      *)
(* atomic store, mutex operation and engine call of a method is one step,  *)
(* so the steps of concurrent calls interleave as those of the code do.    *)
(* pc[t] names the statement thread t executes next; pc[t] = "idle" means  *)
(* t is between two calls.  returned is what the step just taken returned  *)
(* to its caller, NoReturn when that step was not the return of a call.    *)
(* In a flush, the load of the staged value and the engine call that       *)
(* receives it are one step: no other thread reads what the call writes    *)
(* before the flushing thread releases the guard.                          *)
(*                                                                         *)
(* Pitch and formant scales are written in hundredths (100 is 1.0).        *)
(***************************************************************************)
EXTENDS Integers, Sequences, FiniteSets, TLC

\* Bounds of the model.
NThreads == 2
MaxScale == 2
Channels == 2
BlockSize == 2
MaxSampleRate == 3
MaxChannelArg == 3
MaxDebugLevel == 1

Threads == 1..NThreads

\* The mutex is either free or held by one thread.
Free == 0

\* LiveShifterBuilder::build: AtomicF64::new(1.0)
InitialPitchScale == 100

\* thread_safety.rs: LiveShifterBuilder::new(44100, 1)
SampleRate == 44100

\* thread_safety.rs, test_start_delay: the pitch scales 0.5, 1.0, 2.0 and the
\* start delay the engine reports for each (48 kHz, short window).
PitchScaleTable == <<100, 50, 200>>
DelayTable == <<2112, 3648, 2880>>

\* The pitch scales a caller passes to set_pitch_scale.
Scales == {PitchScaleTable[k] : k \in 1..MaxScale}
FormantScales == {200}
FormantOptions == {"Shifted", "Preserved"}

\* rubberband_live_get_start_delay at engine pitch scale p
EngineStartDelay(p) ==
    DelayTable[CHOOSE k \in 1..Len(PitchScaleTable) : PitchScaleTable[k] = p]

\* rubberband_live_get_block_size: the same for every engine
EngineBlockSize == BlockSize

\* Buffers of the given shape (one length per channel), every sample v.
Buffers(shape, v) == [ch \in 1..Len(shape) |-> [i \in 1..shape[ch] |-> v]]
ShapeOf(buffers) == [ch \in 1..Len(buffers) |-> Len(buffers[ch])]

\* What a sample holds before the engine writes it, and after.
CallerSample == 0
EngineSample == 1

\* What the engine writes to a sample of the first block it shifts after its
\* creation or its reset, when it holds no history: the start of its output.
FirstBlockSample == 2

\* rubberband_live_shift: the sample written by an engine with, or without,
\* history of past blocks
ShiftedSample(history) == IF history THEN EngineSample ELSE FirstBlockSample

GoodShape == [ch \in 1..Channels |-> BlockSize]
ShortShape == [ch \in 1..(Channels - 1) |-> BlockSize]
LongShape == [ch \in 1..(Channels + 1) |-> BlockSize]
BadLastShape == [GoodShape EXCEPT ![Channels] = BlockSize + 1]
BadFirstShape == [GoodShape EXCEPT ![1] = BlockSize - 1]

\* The <<input shape, output shape>> pairs callers pass to process_into.
CallShapes ==
    { <<GoodShape, GoodShape>>,
      <<ShortShape, GoodShape>>,
      <<GoodShape, LongShape>>,
      <<BadLastShape, GoodShape>>,
      <<BadLastShape, BadFirstShape>> }

\* Every shape a lone caller passes: any channel count from one less to one
\* more than the engine's, each channel of one of the given lengths.
ShapesOf(lengths) ==
    UNION {[1..n -> lengths] : n \in (Channels - 1)..(Channels + 1)}

\* A wrong input channel is one sample too long, a wrong output channel one
\* too short; a caller may also pass no input channel at all.
InputShapes == ShapesOf({BlockSize, BlockSize + 1}) \cup {<< >>}
OutputShapes == ShapesOf({BlockSize, BlockSize - 1})

\* RubberBandError values and the other values a call returns, as tuples.
\* Panic stands for the call not returning: the thread unwinds.
None == <<"None">>
Panic == <<"Panic">>
Unit == <<"Unit">>
Ok == <<"Ok">>
Value(v) == <<"Value", v>>
OperationInProgress == <<"OperationInProgress">>
InconsistentChannelCount(expected, actual) ==
    <<"InconsistentChannelCount", expected, actual>>
InconsistentBlockSize(channel, expected, actual) ==
    <<"InconsistentBlockSize", channel, expected, actual>>

VARIABLES
    pc,                   \* pc[t]: the statement thread t executes next
    mutex,                \* LiveShifter.mutex: Free or the holding thread
    pitch_scale,          \* LiveShifter.pitch_scale (AtomicF64)
    pitch_dirty,          \* LiveShifter.pitch_dirty (AtomicBool)
    enginePitch,          \* the engine's pitch scale
    engineFormantScale,   \* the engine's formant scale
    engineFormantOption,  \* the engine's formant option
    engineHistory,        \* whether the engine holds history of past blocks
    input,                \* input[t]: the input buffers of t's process_into,
                          \* or the argument of its set_pitch_semitone/_cent,
                          \* or the value a relaxed store of t has yet to
                          \* write or a relaxed load of t has read early
    output,               \* output[t]: the output buffers of t's process_into
    returned,             \* the return the last step made, if any: the thread,
                          \* the method, the value returned, the buffers of
                          \* the call as it left them and the output buffers
                          \* the caller of process comes to own
    wrapped,              \* wrapped[t]: t's process_into was called by process
    state,                \* LiveShifter.state: the engine handle
    builder,              \* the LiveShifterBuilder in the making, if any
    engineConfig,         \* what the engine was created with: the arguments
                          \* of rubberband_live_new and the debug level set
    sample_rate_field,    \* LiveShifter.sample_rate
    lastSet,              \* history: argument of the latest pitch_scale store
    recording,            \* whether the behaviour keeps noSetSince
    noSetSince            \* history: noSetSince[t] iff no set_pitch_scale call
                          \* was in flight when t's guarded call started and
                          \* none has started since

vars == <<pc, mutex, pitch_scale, pitch_dirty, enginePitch, engineFormantScale,
          engineFormantOption, engineHistory, input, output, returned,
          wrapped, state, builder, engineConfig, sample_rate_field, lastSet,
          recording, noSetSince>>

engineVars == <<enginePitch, engineFormantScale, engineFormantOption, engineHistory>>
stagingVars == <<pitch_scale, pitch_dirty, lastSet>>
bufferVars == <<input, output>>
instanceVars == <<state, builder, engineConfig, sample_rate_field>>

\* rubberband_live_get_channel_count: the count the engine was created with
EngineChannelCount == engineConfig.channels

\* The engine handle: not yet created, created, deleted.
NoEngine == "none"
Live == "live"
Deleted == "deleted"

NoBuffers == << >>

\* The last step was not the return of a call.
NoReturn ==
    [thread |-> 0, call |-> "none", value |-> None,
     input |-> NoBuffers, output |-> NoBuffers, owned |-> NoBuffers]

\* The fields LiveShifterBuilder::build gives an instance, and the engine's
\* parameters, with the builder's defaults.
Defaults ==
    /\ mutex = Free
    /\ pitch_scale = InitialPitchScale
    /\ pitch_dirty = FALSE
    /\ enginePitch = InitialPitchScale
    /\ engineFormantScale = 0
    /\ engineFormantOption = "Shifted"
    /\ engineHistory = FALSE
    /\ input = [t \in Threads |-> NoBuffers]
    /\ output = [t \in Threads |-> NoBuffers]
    /\ returned = NoReturn
    /\ wrapped = [t \in Threads |-> FALSE]
    /\ builder = None
    /\ lastSet = InitialPitchScale
    /\ noSetSince = [t \in Threads |-> FALSE]

\* The option flag build() ORs in for a window, a formant option and a
\* channel mode.
OptionBitsWindow(window) ==
    IF window = "Short" THEN "OPTION_BITS_WINDOW_SHORT"
    ELSE "OPTION_BITS_WINDOW_MEDIUM"
OptionBitsFormant(formant) ==
    IF formant = "Shifted" THEN "OPTION_BITS_FORMANT_SHIFTED"
    ELSE "OPTION_BITS_FORMANT_PRESERVED"
OptionBitsChannels(channel_mode) ==
    IF channel_mode = "Apart" THEN "OPTION_BITS_CHANNELS_APART"
    ELSE "OPTION_BITS_CHANNELS_TOGETHER"

\* options |= flag, the options being the set of the flags ORed in so far
OrFlag(options, flag) == options \cup {flag}

\* Mutant of BuildOptions: the formant option is not ORed in.
BuildOptionsSkipsFormant(b) ==
    LET none == {}
        withWindow == OrFlag(none, OptionBitsWindow(b.window))
    IN  OrFlag(withWindow, OptionBitsChannels(b.channel_mode))

\* build(): the options of builder b, from 0 by one |= per match
BuildOptions(b) ==
    LET none == {}
        withWindow == OrFlag(none, OptionBitsWindow(b.window))
        withFormant == OrFlag(withWindow, OptionBitsFormant(b.formant))
    IN  OrFlag(withFormant, OptionBitsChannels(b.channel_mode))

\* Mutant of ConfigOf: rubberband_live_new is given its first two arguments
\* in the wrong order.
ConfigSwapped(b) ==
    [sample_rate |-> b.channels, channels |-> b.sample_rate,
     options |-> BuildOptions(b), debug_level |-> b.debug_level]

\* The formant option of an engine given the flag, or the options: preserved
\* if the flag of the preserved formants is in, shifted otherwise.
EngineFormantOf(options) ==
    IF "OPTION_BITS_FORMANT_PRESERVED" \in options THEN "Preserved"
    ELSE "Shifted"

\* build(): what the engine of builder b is created with
ConfigOf(b) ==
    [sample_rate |-> b.sample_rate, channels |-> b.channels,
     options |-> BuildOptions(b), debug_level |-> b.debug_level]

\* No engine has been created.
NoConfig ==
    [sample_rate |-> 0, channels |-> 0, options |-> {}, debug_level |-> 0]

\* The builder LiveShifterBuilder::new(SampleRate, Channels) returns.
DefaultBuilder ==
    [sample_rate |-> SampleRate, channels |-> Channels,
     window |-> "Short", formant |-> "Shifted",
     channel_mode |-> "Apart", debug_level |-> 0]

\* LiveShifterBuilder::build has returned the instance.
Built ==
    /\ Defaults
    /\ pc = [t \in Threads |-> "idle"]
    /\ state = Live
    /\ engineConfig = ConfigOf(DefaultBuilder)
    /\ sample_rate_field = SampleRate

Init == Built /\ recording = FALSE

\* The same instance, in behaviours that keep the history noSetSince.
InitHistory == Built /\ recording = TRUE

\* Thread t starts a call and goes to its statement next.
Begin(t, next) ==
    /\ pc[t] = "idle"
    /\ pc' = [pc EXCEPT ![t] = next]
    /\ returned' = NoReturn
    /\ UNCHANGED <<bufferVars, wrapped, instanceVars>>

\* Thread t goes on to its next statement.
Goto(t, next) ==
    /\ pc' = [pc EXCEPT ![t] = next]
    /\ returned' = NoReturn
    /\ UNCHANGED <<wrapped, instanceVars>>

\* Mutant of ProcessOutput: the output comes with an error too.
ProcessOutputKept(r, out) == out

\* process: self.process_into(input, &mut output_slices)?; Ok(output).  The
\* output buffers the caller comes to own when process_into has returned r:
\* those process allocated if r is Ok, none if the ? returns the error.
ProcessOutput(r, out) == IF r = Ok THEN out ELSE NoBuffers

\* Thread t's call of method returns r, leaving the caller's buffers as in
\* and out.  A process_into that process called returns through process,
\* which hands an error on and makes Ok(()) the Ok of the buffers it allocated.
ReturnWith(t, method, r, in, out) ==
    /\ pc' = [pc EXCEPT ![t] = "idle"]
    /\ returned' = [thread |-> t,
                    call |-> IF wrapped[t] THEN "process" ELSE method,
                    value |-> r, input |-> in, output |-> out,
                    owned |-> IF wrapped[t] THEN ProcessOutput(r, out)
                              ELSE NoBuffers]
    /\ input' = [input EXCEPT ![t] = NoBuffers]
    /\ output' = [output EXCEPT ![t] = NoBuffers]
    /\ wrapped' = [wrapped EXCEPT ![t] = FALSE]
    /\ UNCHANGED instanceVars

\* Thread t's call of method, which takes no buffers, returns r.
Return(t, method, r) == ReturnWith(t, method, r, NoBuffers, NoBuffers)

\* Thread t makes a call of one step, which returns r.
Call(t, method, r) ==
    /\ pc[t] = "idle"
    /\ Return(t, method, r)

SetterInFlight ==
    \E u \in Threads :
        pc[u] \in {"sps_dirty", "sst_dirty", "sct_dirty", "sps_store"}

\* History: a set_pitch_scale call starts; a guarded call of t starts, ends.
SetCallStarts ==
    /\ noSetSince' = [u \in Threads |-> FALSE]
    /\ UNCHANGED recording
GuardedCallStarts(t) ==
    /\ noSetSince' = [noSetSince EXCEPT ![t] = recording /\ ~SetterInFlight]
    /\ UNCHANGED recording
GuardedCallEnds(t) ==
    /\ noSetSince' = [noSetSince EXCEPT ![t] = FALSE]
    /\ UNCHANGED recording
NoHistory == UNCHANGED <<recording, noSetSince>>

-----------------------------------------------------------------------------
(* LiveShifterBuilder *)

UnsupportedSampleRate(rate) == <<"UnsupportedSampleRate", rate>>
UnsupportedChannelCount(count) == <<"UnsupportedChannelCount", count>>
OkBuilder(b) == <<"Builder", b>>

Windows == {"Short", "Medium"}
ChannelModes == {"Apart", "Together"}

\* Mutant of LiveShifterBuilderNew: the channel count is checked first.
NewChecksChannelsFirst(sample_rate, channels) ==
    IF channels = 0 THEN UnsupportedChannelCount(channels)
    ELSE IF sample_rate = 0 THEN UnsupportedSampleRate(sample_rate)
    ELSE OkBuilder([sample_rate |-> sample_rate, channels |-> channels,
                    window |-> "Short", formant |-> "Shifted",
                    channel_mode |-> "Apart", debug_level |-> 0])

\* LiveShifterBuilder::new(sample_rate, channels)
LiveShifterBuilderNew(sample_rate, channels) ==
    IF sample_rate = 0 THEN UnsupportedSampleRate(sample_rate)
    ELSE IF channels = 0 THEN UnsupportedChannelCount(channels)
    ELSE OkBuilder([sample_rate |-> sample_rate, channels |-> channels,
                    window |-> "Short", formant |-> "Shifted",
                    channel_mode |-> "Apart", debug_level |-> 0])

\* No instance has been built: no thread has one to call.
InitBuilder ==
    /\ Defaults
    /\ pc = [t \in Threads |-> "unbuilt"]
    /\ state = NoEngine
    /\ engineConfig = NoConfig
    /\ sample_rate_field = 0
    /\ recording = FALSE

\* A step of the construction returns r for the arguments args.
Constructed(method, r, args) ==
    /\ returned' = [thread |-> 0, call |-> method, value |-> r,
                    input |-> args, output |-> NoBuffers, owned |-> NoBuffers]
    /\ UNCHANGED <<pc, mutex, stagingVars, bufferVars, wrapped, engineConfig,
                   sample_rate_field>>
    /\ NoHistory

\* let b = LiveShifterBuilder::new(sample_rate, channels)
New ==
    \E sample_rate \in 0..MaxSampleRate, channels \in 0..MaxChannelArg :
        LET r == LiveShifterBuilderNew(sample_rate, channels)
        IN  /\ state = NoEngine
            /\ builder' = r
            /\ Constructed("new", r, <<sample_rate, channels>>)
            /\ UNCHANGED <<state, engineVars>>

\* The builder's setter of field sets it to value.
BuilderSet(method, field, value) ==
    /\ state = NoEngine
    /\ builder[1] = "Builder"
    /\ builder' = OkBuilder([builder[2] EXCEPT ![field] = value])
    /\ Constructed(method, builder', <<value>>)
    /\ UNCHANGED <<state, engineVars>>

\* b.window(window), b.formant(formant), b.channel_mode(channel_mode),
\* b.debug_level(level)
Window == \E window \in Windows : BuilderSet("window", "window", window)
Formant == \E formant \in FormantOptions : BuilderSet("formant", "formant", formant)
ChannelMode ==
    \E channel_mode \in ChannelModes :
        BuilderSet("channel_mode", "channel_mode", channel_mode)
DebugLevel ==
    \E level \in 0..MaxDebugLevel : BuilderSet("debug_level", "debug_level", level)

\* b.build(): rubberband_live_new creates the engine with the builder's
\* sample rate, channel count and options, rubberband_live_set_debug_level
\* sets its debug level, and the instance gets its fields; the instance can
\* be called from now on.
Build ==
    /\ state = NoEngine
    /\ builder[1] = "Builder"
    /\ state' = Live
    /\ engineConfig' = ConfigOf(builder[2])
    /\ engineFormantOption' = EngineFormantOf(BuildOptions(builder[2]))
    /\ enginePitch' = InitialPitchScale
    /\ engineFormantScale' = 0
    /\ engineHistory' = FALSE
    /\ mutex' = Free
    /\ sample_rate_field' = builder[2].sample_rate
    /\ pitch_scale' = InitialPitchScale
    /\ pitch_dirty' = FALSE
    /\ builder' = None
    /\ pc' = [t \in Threads |-> "idle"]
    /\ returned' = [thread |-> 0, call |-> "build", value |-> Unit,
                    input |-> <<builder[2]>>, output |-> NoBuffers,
                    owned |-> NoBuffers]
    /\ UNCHANGED <<lastSet, bufferVars, wrapped>>
    /\ NoHistory

-----------------------------------------------------------------------------
(* Parameter staging *)

\* set_pitch_scale: self.pitch_scale.store(scale, Relaxed)
SetPitchScaleStore(t) ==
    \E scale \in Scales :
        /\ Begin(t, "sps_dirty")
        /\ pitch_scale' = scale
        /\ lastSet' = scale
        /\ SetCallStarts
        /\ UNCHANGED <<mutex, pitch_dirty, engineVars>>

\* Mutant of SetPitchScaleDirty: the setter pushes the value into the engine
\* itself.
SetPitchScaleDirtyPushes(t) ==
    /\ pc[t] = "sps_dirty"
    /\ pitch_dirty' = TRUE
    /\ enginePitch' = pitch_scale
    /\ Return(t, "set_pitch_scale", Unit)
    /\ UNCHANGED <<mutex, pitch_scale, lastSet, engineFormantScale,
                   engineFormantOption, engineHistory>>
    /\ NoHistory

\* set_pitch_scale: self.pitch_dirty.store(true, Relaxed), and return
SetPitchScaleDirty(t) ==
    /\ pc[t] = "sps_dirty"
    /\ pitch_dirty' = TRUE
    /\ Return(t, "set_pitch_scale", Unit)
    /\ UNCHANGED <<mutex, pitch_scale, lastSet, engineVars>>
    /\ NoHistory

\* The semitones and cents a caller passes: whole octaves, down and up.
Octaves == {-1, 0, 1}
Semitones == {12 * k : k \in Octaves}
Cents == {1200 * k : k \in Octaves}

\* 2.0f64.powf(num / den), in hundredths, for num a multiple of den
Powf2(num, den) ==
    IF num >= 0 THEN 100 * 2 ^ (num \div den)
    ELSE 100 \div 2 ^ ((0 - num) \div den)

\* Mutant of SemitonesToScale: the semitones are taken for cents.
SemitonesAsCents(semitones) == Powf2(semitones, 1200)

\* set_pitch_semitone: let scale = 2.0f64.powf(semitones / 12.0)
SemitonesToScale(semitones) == Powf2(semitones, 12)

\* set_pitch_cent: let scale = 2.0f64.powf(cents / 1200.0)
CentsToScale(cents) == Powf2(cents, 1200)

\* Thread t calls a method that computes scale from its argument arg and
\* calls set_pitch_scale(scale), which stores it; the return is next.
ConvertAndStore(t, arg, scale, next) ==
    /\ pc[t] = "idle"
    /\ pc' = [pc EXCEPT ![t] = next]
    /\ input' = [input EXCEPT ![t] = <<arg>>]
    /\ pitch_scale' = scale
    /\ lastSet' = scale
    /\ returned' = NoReturn
    /\ SetCallStarts
    /\ UNCHANGED <<mutex, pitch_dirty, engineVars, output, wrapped, instanceVars>>

\* The set_pitch_scale that method called stores dirty = true and returns,
\* and so does method.
DirtyAndReturn(t, method, at) ==
    /\ pc[t] = at
    /\ pitch_dirty' = TRUE
    /\ ReturnWith(t, method, Unit, input[t], NoBuffers)
    /\ UNCHANGED <<mutex, pitch_scale, lastSet, engineVars>>
    /\ NoHistory

\* set_pitch_semitone(semitones): self.set_pitch_scale(scale)
SetPitchSemitoneStore(t) ==
    \E semitones \in Semitones :
        ConvertAndStore(t, semitones, SemitonesToScale(semitones), "sst_dirty")
SetPitchSemitoneDirty(t) == DirtyAndReturn(t, "set_pitch_semitone", "sst_dirty")

\* set_pitch_cent(cents): self.set_pitch_scale(scale)
SetPitchCentStore(t) ==
    \E cents \in Cents :
        ConvertAndStore(t, cents, CentsToScale(cents), "sct_dirty")
SetPitchCentDirty(t) == DirtyAndReturn(t, "set_pitch_cent", "sct_dirty")

\* Mutant of PitchScale: the value is read back from the engine.
PitchScaleFromEngine(t) ==
    /\ Call(t, "pitch_scale", Value(enginePitch))
    /\ UNCHANGED <<mutex, stagingVars, engineVars>>
    /\ NoHistory

\* pitch_scale: self.pitch_scale.load(Relaxed)
PitchScale(t) ==
    /\ Call(t, "pitch_scale", Value(pitch_scale))
    /\ UNCHANGED <<mutex, stagingVars, engineVars>>
    /\ NoHistory

-----------------------------------------------------------------------------
(* Formant accessors: forwarded to the engine without the guard *)

\* set_formant_scale: rubberband_live_set_formant_scale(self.state, scale)
SetFormantScale(t) ==
    \E scale \in FormantScales :
        /\ Call(t, "set_formant_scale", Unit)
        /\ engineFormantScale' = scale
        /\ UNCHANGED <<mutex, stagingVars, enginePitch, engineFormantOption,
                       engineHistory>>
        /\ NoHistory

\* Mutant of FormantScale: the getter waits for the guard.
FormantScaleLocks(t) ==
    /\ mutex = Free
    /\ Call(t, "formant_scale", Value(engineFormantScale))
    /\ UNCHANGED <<mutex, stagingVars, engineVars>>
    /\ NoHistory

\* formant_scale: rubberband_live_get_formant_scale(self.state)
FormantScale(t) ==
    /\ Call(t, "formant_scale", Value(engineFormantScale))
    /\ UNCHANGED <<mutex, stagingVars, engineVars>>
    /\ NoHistory

\* channel_count: rubberband_live_get_channel_count(self.state)
ChannelCountQuery(t) ==
    /\ Call(t, "channel_count", Value(EngineChannelCount))
    /\ UNCHANGED <<mutex, stagingVars, engineVars>>
    /\ NoHistory

\* block_size: rubberband_live_get_block_size(self.state)
BlockSizeQuery(t) ==
    /\ Call(t, "block_size", Value(EngineBlockSize))
    /\ UNCHANGED <<mutex, stagingVars, engineVars>>
    /\ NoHistory

\* sample_rate: self.sample_rate
SampleRateQuery(t) ==
    /\ Call(t, "sample_rate", Value(sample_rate_field))
    /\ UNCHANGED <<mutex, stagingVars, engineVars>>
    /\ NoHistory

\* Mutant of SetFormantOptionBits: the two arms of the match are swapped.
SetFormantOptionBitsSwapped(option) ==
    IF option = "Shifted" THEN "OPTION_BITS_FORMANT_PRESERVED"
    ELSE "OPTION_BITS_FORMANT_SHIFTED"

\* set_formant_option: let option_bits = match option { ... }
SetFormantOptionBits(option) ==
    IF option = "Shifted" THEN "OPTION_BITS_FORMANT_SHIFTED"
    ELSE "OPTION_BITS_FORMANT_PRESERVED"

\* set_formant_option: rubberband_live_set_formant_option(self.state, bits)
SetFormantOption(t) ==
    \E option \in FormantOptions :
        /\ pc[t] = "idle"
        /\ ReturnWith(t, "set_formant_option", Unit, <<option>>, NoBuffers)
        /\ engineFormantOption' = EngineFormantOf({SetFormantOptionBits(option)})
        /\ UNCHANGED <<mutex, stagingVars, enginePitch, engineFormantScale,
                       engineHistory>>
        /\ NoHistory

-----------------------------------------------------------------------------
(* process_into *)

\* The channels of wrong length, and the lowest of a set of channels.
WrongChannels(buffers) ==
    {ch \in 1..Len(buffers) : Len(buffers[ch]) # EngineBlockSize}
Lowest(S) == CHOOSE x \in S : \A y \in S : x <= y

\* Mutant of CheckBlocks: every input channel is checked before any output
\* channel.
CheckBlocksInputsFirst(in, out, ch) ==
    IF WrongChannels(in) # {}
    THEN LET c == Lowest(WrongChannels(in))
         IN  InconsistentBlockSize(c - 1, EngineBlockSize, Len(in[c]))
    ELSE IF WrongChannels(out) # {}
    THEN LET c == Lowest(WrongChannels(out))
         IN  InconsistentBlockSize(c - 1, EngineBlockSize, Len(out[c]))
    ELSE Ok

\* The block-size loop from channel ch on (channels count from 1 here, from
\* 0 in the code): the first wrong length, input before output per channel.
RECURSIVE CheckBlocks(_, _, _)
CheckBlocks(in, out, ch) ==
    IF ch > EngineChannelCount THEN Ok
    ELSE IF Len(in[ch]) # EngineBlockSize
         THEN InconsistentBlockSize(ch - 1, EngineBlockSize, Len(in[ch]))
    ELSE IF Len(out[ch]) # EngineBlockSize
         THEN InconsistentBlockSize(ch - 1, EngineBlockSize, Len(out[ch]))
    ELSE CheckBlocks(in, out, ch + 1)

\* Mutant of Validate: the output's channel count is checked first.
ValidateOutputFirst(in, out) ==
    IF Len(out) # EngineChannelCount
    THEN InconsistentChannelCount(EngineChannelCount, Len(out))
    ELSE IF Len(in) # EngineChannelCount
    THEN InconsistentChannelCount(EngineChannelCount, Len(in))
    ELSE CheckBlocks(in, out, 1)

\* process_into's shape validation: Ok, or the error it returns.
Validate(in, out) ==
    IF Len(in) # EngineChannelCount
    THEN InconsistentChannelCount(EngineChannelCount, Len(in))
    ELSE IF Len(out) # EngineChannelCount
    THEN InconsistentChannelCount(EngineChannelCount, Len(out))
    ELSE CheckBlocks(in, out, 1)

\* Mutant of TryLockAcquires: the guard is not consulted.
TryLockAlways == TRUE

\* Mutant of TryLockAcquires: the setters hold the guard too.
TryLockUnlessSetting == mutex = Free /\ ~SetterInFlight

\* self.mutex.try_lock() returns the guard
TryLockAcquires == mutex = Free

\* _guard is Some: go on to the validation, holding the mutex
ProcessIntoAcquired(t, in, out) ==
    /\ mutex' = t
    /\ pc' = [pc EXCEPT ![t] = "pi_validate"]
    /\ input' = [input EXCEPT ![t] = in]
    /\ output' = [output EXCEPT ![t] = out]
    /\ returned' = NoReturn
    /\ GuardedCallStarts(t)
    /\ UNCHANGED <<stagingVars, engineVars, wrapped, instanceVars>>

\* Mutant of ProcessIntoBusy: lock() in place of try_lock(), the call waits.
ProcessIntoWaits(t, in, out) == FALSE

\* Mutant of ProcessIntoBusy: the flush runs before the guard is looked at.
ProcessIntoBusyFlushes(t, in, out) ==
    /\ ReturnWith(t, "process_into", OperationInProgress, in, out)
    /\ enginePitch' = IF pitch_dirty THEN pitch_scale ELSE enginePitch
    /\ pitch_dirty' = FALSE
    /\ UNCHANGED <<mutex, pitch_scale, lastSet, engineFormantScale,
                   engineFormantOption, engineHistory>>
    /\ NoHistory

\* _guard.is_none(): return Err(OperationInProgress)
ProcessIntoBusy(t, in, out) ==
    /\ ReturnWith(t, "process_into", OperationInProgress, in, out)
    /\ UNCHANGED <<mutex, stagingVars, engineVars>>
    /\ NoHistory

\* Mutant of ProcessIntoCall: the shapes are checked before the guard is
\* tried.
ProcessIntoCallValidatesFirst(t, in, out) ==
    IF Validate(in, out) # Ok
    THEN /\ ReturnWith(t, "process_into", Validate(in, out), in, out)
         /\ UNCHANGED <<mutex, stagingVars, engineVars>>
         /\ NoHistory
    ELSE IF TryLockAcquires
    THEN ProcessIntoAcquired(t, in, out)
    ELSE ProcessIntoBusy(t, in, out)

\* let _guard = self.mutex.try_lock(); if _guard.is_none() { return ... }
ProcessIntoCall(t, in, out) ==
    IF TryLockAcquires
    THEN ProcessIntoAcquired(t, in, out)
    ELSE ProcessIntoBusy(t, in, out)

\* process_into(input, output): the call and its try_lock
ProcessInto(t) ==
    \E shapes \in CallShapes :
        /\ pc[t] = "idle"
        /\ ProcessIntoCall(t, Buffers(shapes[1], CallerSample),
                              Buffers(shapes[2], CallerSample))

\* process_into(input, output) with rightly shaped buffers
ProcessIntoGood(t) ==
    /\ pc[t] = "idle"
    /\ ProcessIntoCall(t, Buffers(GoodShape, CallerSample),
                          Buffers(GoodShape, CallerSample))

\* process_into(input, output) with buffers of the shape the instance asks
\* for: channel_count() channels of block_size() samples
ProcessIntoFitting(t) ==
    LET shape == [ch \in 1..EngineChannelCount |-> EngineBlockSize]
    IN  /\ pc[t] = "idle"
        /\ ProcessIntoCall(t, Buffers(shape, CallerSample),
                              Buffers(shape, CallerSample))

\* process_into(input, output) with buffers of any shape
ProcessIntoAnyShape(t) ==
    \E shapeIn \in InputShapes, shapeOut \in OutputShapes :
        /\ pc[t] = "idle"
        /\ ProcessIntoCall(t, Buffers(shapeIn, CallerSample),
                              Buffers(shapeOut, CallerSample))

\* process(input): vec![vec![0.0; input[0].len()]; input.len()], where
\* input[0] panics (index out of bounds) when input has no channel
ProcessAllocate(t) ==
    \E shape \in InputShapes :
        LET in == Buffers(shape, CallerSample)
        IN  /\ pc[t] = "idle"
            /\ IF Len(in) = 0
               THEN ReturnWith(t, "process", Panic, in, NoBuffers)
               ELSE /\ pc' = [pc EXCEPT ![t] = "p_call"]
                    /\ input' = [input EXCEPT ![t] = in]
                    /\ output' = [output EXCEPT ![t] =
                           [ch \in 1..Len(in) |->
                               [i \in 1..Len(in[1]) |-> CallerSample]]]
                    /\ wrapped' = [wrapped EXCEPT ![t] = TRUE]
                    /\ returned' = NoReturn
                    /\ UNCHANGED instanceVars
            /\ UNCHANGED <<mutex, stagingVars, engineVars>>
            /\ NoHistory

\* process: self.process_into(input, &mut output_slices)?
ProcessCall(t) ==
    /\ pc[t] = "p_call"
    /\ ProcessIntoCall(t, input[t], output[t])

\* Mutant of ProcessIntoInvalid: the flush runs before the validation.
ProcessIntoInvalidFlushes(t, err) ==
    /\ mutex' = Free
    /\ ReturnWith(t, "process_into", err, input[t], output[t])
    /\ GuardedCallEnds(t)
    /\ enginePitch' = IF pitch_dirty THEN pitch_scale ELSE enginePitch
    /\ pitch_dirty' = FALSE
    /\ UNCHANGED <<pitch_scale, lastSet, engineFormantScale,
                   engineFormantOption, engineHistory>>

\* Mutant of ProcessIntoInvalid: the early return leaves the guard held.
ProcessIntoInvalidKeepsGuard(t, err) ==
    /\ ReturnWith(t, "process_into", err, input[t], output[t])
    /\ GuardedCallEnds(t)
    /\ UNCHANGED <<mutex, stagingVars, engineVars>>

\* a validation error: the guard is dropped and the error returned
ProcessIntoInvalid(t, err) ==
    /\ mutex' = Free
    /\ ReturnWith(t, "process_into", err, input[t], output[t])
    /\ GuardedCallEnds(t)
    /\ UNCHANGED <<stagingVars, engineVars>>

\* the shapes are right: go on to the flush
ProcessIntoValid(t) ==
    /\ Goto(t, "pi_dirty")
    /\ UNCHANGED <<mutex, stagingVars, engineVars, bufferVars>>
    /\ NoHistory

\* Mutant of ProcessIntoValidate: the channel_count() the checks call takes
\* the mutex with lock(), which the caller holds.
ProcessIntoValidateLocks(t) ==
    /\ pc[t] = "pi_validate"
    /\ mutex = Free
    /\ LET err == Validate(input[t], output[t])
       IN  IF err = Ok THEN ProcessIntoValid(t) ELSE ProcessIntoInvalid(t, err)

\* process_into: the channel-count and block-size checks
ProcessIntoValidate(t) ==
    /\ pc[t] = "pi_validate"
    /\ LET err == Validate(input[t], output[t])
       IN  IF err = Ok THEN ProcessIntoValid(t) ELSE ProcessIntoInvalid(t, err)

\* Mutant of ProcessIntoLoadDirty: the flush pushes whether dirty or not.
ProcessIntoAlwaysPushes(t) ==
    /\ pc[t] = "pi_dirty"
    /\ Goto(t, "pi_push")
    /\ UNCHANGED <<mutex, stagingVars, engineVars, bufferVars>>
    /\ NoHistory

\* process_into: if self.pitch_dirty.load(Relaxed)
ProcessIntoLoadDirty(t) ==
    /\ pc[t] = "pi_dirty"
    /\ Goto(t, IF pitch_dirty THEN "pi_push" ELSE "pi_shift")
    /\ UNCHANGED <<mutex, stagingVars, engineVars, bufferVars>>
    /\ NoHistory

\* process_into: rubberband_live_set_pitch_scale(state, pitch_scale.load())
ProcessIntoPush(t) ==
    /\ pc[t] = "pi_push"
    /\ enginePitch' = pitch_scale
    /\ Goto(t, "pi_clear")
    /\ UNCHANGED <<mutex, stagingVars, engineFormantScale, engineFormantOption,
                   engineHistory, bufferVars>>
    /\ NoHistory

\* Mutant of ProcessIntoClear: the guard is dropped once the flush is done,
\* before the shift.
ProcessIntoClearReleases(t) ==
    /\ pc[t] = "pi_clear"
    /\ pitch_dirty' = FALSE
    /\ mutex' = Free
    /\ Goto(t, "pi_shift")
    /\ UNCHANGED <<pitch_scale, lastSet, engineVars, bufferVars>>
    /\ NoHistory

\* process_into: self.pitch_dirty.store(false, Relaxed)
ProcessIntoClear(t) ==
    /\ pc[t] = "pi_clear"
    /\ pitch_dirty' = FALSE
    /\ Goto(t, "pi_shift")
    /\ UNCHANGED <<mutex, pitch_scale, lastSet, engineVars, bufferVars>>
    /\ NoHistory

\* process_into: rubberband_live_shift writes every output sample; then
\* Ok(()) is returned and the guard dropped
ProcessIntoShift(t) ==
    /\ pc[t] = "pi_shift"
    /\ engineHistory' = TRUE
    /\ mutex' = Free
    /\ ReturnWith(t, "process_into", Ok, input[t],
                  Buffers(ShapeOf(output[t]), ShiftedSample(engineHistory)))
    /\ GuardedCallEnds(t)
    /\ UNCHANGED <<stagingVars, enginePitch, engineFormantScale, engineFormantOption>>

-----
(* start_delay *)

\* start_delay(): the call, up to self.mutex.lock()
StartDelayCall(t) ==
    /\ Begin(t, "sd_lock")
    /\ GuardedCallStarts(t)
    /\ UNCHANGED <<mutex, stagingVars, engineVars>>

\* Mutant of StartDelayLock: try_lock() in place of lock(), and an error
\* when the mutex is held.
StartDelayLockTries(t) ==
    /\ pc[t] = "sd_lock"
    /\ IF mutex = Free
       THEN /\ mutex' = t
            /\ Goto(t, "sd_dirty")
            /\ UNCHANGED <<bufferVars, noSetSince, recording>>
       ELSE /\ Return(t, "start_delay", OperationInProgress)
            /\ GuardedCallEnds(t)
            /\ UNCHANGED mutex
    /\ UNCHANGED <<stagingVars, engineVars>>

\* start_delay: self.mutex.lock() returns once the mutex is free
StartDelayLock(t) ==
    /\ pc[t] = "sd_lock"
    /\ mutex = Free
    /\ mutex' = t
    /\ Goto(t, "sd_dirty")
    /\ UNCHANGED <<stagingVars, engineVars, bufferVars>>
    /\ NoHistory

\* Mutant of StartDelayLoadDirty: the delay is queried without a flush.
StartDelayNoFlush(t) ==
    /\ pc[t] = "sd_dirty"
    /\ Goto(t, "sd_query")
    /\ UNCHANGED <<mutex, stagingVars, engineVars, bufferVars>>
    /\ NoHistory

\* start_delay: if self.pitch_dirty.load(Relaxed)
StartDelayLoadDirty(t) ==
    /\ pc[t] = "sd_dirty"
    /\ Goto(t, IF pitch_dirty THEN "sd_push" ELSE "sd_query")
    /\ UNCHANGED <<mutex, stagingVars, engineVars, bufferVars>>
    /\ NoHistory

\* Mutant of StartDelayPush: the staged value is read in two halves, one of
\* them stale (the engine is given the mean of the new and the old value).
StartDelayPushTorn(t) ==
    /\ pc[t] = "sd_push"
    /\ enginePitch' = (pitch_scale + enginePitch) \div 2
    /\ Goto(t, "sd_clear")
    /\ UNCHANGED <<mutex, stagingVars, engineFormantScale, engineFormantOption,
                   engineHistory, bufferVars>>
    /\ NoHistory

\* start_delay: rubberband_live_set_pitch_scale(state, pitch_scale.load())
StartDelayPush(t) ==
    /\ pc[t] = "sd_push"
    /\ enginePitch' = pitch_scale
    /\ Goto(t, "sd_clear")
    /\ UNCHANGED <<mutex, stagingVars, engineFormantScale, engineFormantOption,
                   engineHistory, bufferVars>>
    /\ NoHistory

\* start_delay: self.pitch_dirty.store(false, Relaxed)
StartDelayClear(t) ==
    /\ pc[t] = "sd_clear"
    /\ pitch_dirty' = FALSE
    /\ Goto(t, "sd_query")
    /\ UNCHANGED <<mutex, pitch_scale, lastSet, engineVars, bufferVars>>
    /\ NoHistory

\* start_delay: rubberband_live_get_start_delay(state) is returned and the
\* guard dropped
StartDelayQuery(t) ==
    /\ pc[t] = "sd_query"
    /\ mutex' = Free
    /\ Return(t, "start_delay", Value(EngineStartDelay(enginePitch)))
    /\ GuardedCallEnds(t)
    /\ UNCHANGED <<stagingVars, engineVars>>

-----------------------------------------------------------------------------
(* reset *)

\* reset(): the call, up to self.mutex.lock()
ResetCall(t) ==
    /\ Begin(t, "rs_lock")
    /\ UNCHANGED <<mutex, stagingVars, engineVars>>
    /\ NoHistory

\* Mutant of ResetLock: reset does not wait for the guard.
ResetLockNoWait(t) ==
    /\ pc[t] = "rs_lock"
    /\ mutex' = t
    /\ Goto(t, "rs_reset")
    /\ UNCHANGED <<stagingVars, engineVars, bufferVars>>
    /\ NoHistory

\* Mutant of ResetLock: try_lock() in place of lock(), its result ignored.
ResetLockTriesOnce(t) ==
    /\ pc[t] = "rs_lock"
    /\ mutex' = IF mutex = Free THEN t ELSE mutex
    /\ Goto(t, "rs_reset")
    /\ UNCHANGED <<stagingVars, engineVars, bufferVars>>
    /\ NoHistory

\* reset: self.mutex.lock() returns once the mutex is free
ResetLock(t) ==
    /\ pc[t] = "rs_lock"
    /\ mutex = Free
    /\ mutex' = t
    /\ Goto(t, "rs_reset")
    /\ UNCHANGED <<stagingVars, engineVars, bufferVars>>
    /\ NoHistory

\* Mutant of ResetEngine: reset flushes the staged pitch scale too.
ResetEngineFlushes(t) ==
    /\ pc[t] = "rs_reset"
    /\ engineHistory' = FALSE
    /\ enginePitch' = IF pitch_dirty THEN pitch_scale ELSE enginePitch
    /\ pitch_dirty' = FALSE
    /\ mutex' = Free
    /\ Return(t, "reset", Unit)
    /\ UNCHANGED <<pitch_scale, lastSet, engineFormantScale,
                   engineFormantOption>>
    /\ NoHistory

\* Mutant of ResetEngine: reset puts the staged pitch scale back to 1.0.
ResetEngineResetsStaged(t) ==
    /\ pc[t] = "rs_reset"
    /\ engineHistory' = FALSE
    /\ pitch_scale' = InitialPitchScale
    /\ mutex' = Free
    /\ Return(t, "reset", Unit)
    /\ UNCHANGED <<pitch_dirty, lastSet, enginePitch, engineFormantScale,
                   engineFormantOption>>
    /\ NoHistory

\* Mutant of ResetEngine: the engine's reset puts its parameters back to
\* what a new engine has.
ResetEngineDefaults(t) ==
    /\ pc[t] = "rs_reset"
    /\ engineHistory' = FALSE
    /\ enginePitch' = InitialPitchScale
    /\ engineFormantScale' = 0
    /\ mutex' = Free
    /\ Return(t, "reset", Unit)
    /\ UNCHANGED <<stagingVars, engineFormantOption>>
    /\ NoHistory

\* reset: rubberband_live_reset(state); then the guard is dropped
ResetEngine(t) ==
    /\ pc[t] = "rs_reset"
    /\ engineHistory' = FALSE
    /\ mutex' = Free
    /\ Return(t, "reset", Unit)
    /\ UNCHANGED <<stagingVars, enginePitch, engineFormantScale,
                   engineFormantOption>>
    /\ NoHistory

-----------------------------------------------------------------------------
(* Drop *)

\* Mutant of NoCallInFlight: the instance is dropped under a call.
CallsMayBeInFlight == TRUE

\* drop takes &mut self: the instance is dropped by its last owner, when no
\* thread holds a reference to it, that is, with no call in flight.
NoCallInFlight == \A t \in Threads : pc[t] = "idle"

\* impl Drop for LiveShifter: rubberband_live_delete(self.state).  No thread
\* can start a call on the instance afterwards.
Drop ==
    /\ state = Live
    /\ NoCallInFlight
    /\ state' = Deleted
    /\ pc' = [t \in Threads |-> IF pc[t] = "idle" THEN "dropped" ELSE pc[t]]
    /\ returned' = NoReturn
    /\ UNCHANGED <<mutex, stagingVars, engineVars, bufferVars, wrapped, builder,
                   engineConfig, sample_rate_field>>
    /\ NoHistory

-----------------------------------------------------------------------------
Next ==
    \/ Drop
    \/ \E t \in Threads :
        \/ SetPitchScaleStore(t)
        \/ SetPitchScaleDirty(t)
        \/ PitchScale(t)
        \/ SetFormantScale(t)
        \/ SetFormantOption(t)
        \/ ProcessInto(t)
        \/ ProcessIntoValidate(t)
        \/ ProcessIntoLoadDirty(t)
        \/ ProcessIntoPush(t)
        \/ ProcessIntoClear(t)
        \/ ProcessIntoShift(t)
        \/ StartDelayCall(t)
        \/ StartDelayLock(t)
        \/ StartDelayLoadDirty(t)
        \/ StartDelayPush(t)
        \/ StartDelayClear(t)
        \/ StartDelayQuery(t)
        \/ ResetCall(t)
        \/ ResetLock(t)
        \/ ResetEngine(t)

Spec == Init /\ [][Next]_vars

\* The behaviours that keep the history noSetSince.
SpecHistory == InitHistory /\ [][Next]_vars

\* Every accessor, the getters that read the engine or the instance only
\* included, beside the guarded calls, process_into being called with
\* rightly shaped buffers.
NextAccessors ==
    \E t \in Threads :
        \/ SetPitchScaleStore(t)
        \/ SetPitchScaleDirty(t)
        \/ PitchScale(t)
        \/ SetFormantScale(t)
        \/ FormantScale(t)
        \/ SetFormantOption(t)
        \/ ChannelCountQuery(t)
        \/ BlockSizeQuery(t)
        \/ SampleRateQuery(t)
        \/ ProcessIntoGood(t)
        \/ ProcessIntoValidate(t)
        \/ ProcessIntoLoadDirty(t)
        \/ ProcessIntoPush(t)
        \/ ProcessIntoClear(t)
        \/ ProcessIntoShift(t)
        \/ StartDelayCall(t)
        \/ StartDelayLock(t)
        \/ StartDelayLoadDirty(t)
        \/ StartDelayPush(t)
        \/ StartDelayClear(t)
        \/ StartDelayQuery(t)
        \/ ResetCall(t)
        \/ ResetLock(t)
        \/ ResetEngine(t)

SpecAccessors == Init /\ [][NextAccessors]_vars

\* The steps of thread t's calls in flight, the acquisitions of the guard
\* apart.
Progress(t) ==
    \/ SetPitchScaleDirty(t)
    \/ ProcessIntoValidate(t)
    \/ ProcessIntoLoadDirty(t)
    \/ ProcessIntoPush(t)
    \/ ProcessIntoClear(t)
    \/ ProcessIntoShift(t)
    \/ StartDelayLoadDirty(t)
    \/ StartDelayPush(t)
    \/ StartDelayClear(t)
    \/ StartDelayQuery(t)
    \/ ResetEngine(t)

\* Fair scheduling: a call in flight is not stopped for ever, and a lock()
\* that finds the mutex free again and again gets it in the end.
Fairness ==
    \A t \in Threads :
        /\ WF_vars(Progress(t))
        /\ SF_vars(ResetLock(t))
        /\ SF_vars(StartDelayLock(t))

\* The calls that take the guard, process_into with rightly shaped buffers,
\* and set_pitch_scale, which gives their flushes something to push.
NextFair ==
    \E t \in Threads :
        \/ SetPitchScaleStore(t)
        \/ SetPitchScaleDirty(t)
        \/ ProcessIntoGood(t)
        \/ ProcessIntoValidate(t)
        \/ ProcessIntoLoadDirty(t)
        \/ ProcessIntoPush(t)
        \/ ProcessIntoClear(t)
        \/ ProcessIntoShift(t)
        \/ StartDelayCall(t)
        \/ StartDelayLock(t)
        \/ StartDelayLoadDirty(t)
        \/ StartDelayPush(t)
        \/ StartDelayClear(t)
        \/ StartDelayQuery(t)
        \/ ResetCall(t)
        \/ ResetLock(t)
        \/ ResetEngine(t)

SpecFair == Init /\ [][NextFair]_vars /\ Fairness

\* No set_pitch_scale call is concurrent with another call: it starts when
\* the other threads are idle, and no call starts before it has returned.
OthersIdle(t) == \A u \in Threads \ {t} : pc[u] = "idle"
NoSetter == ~SetterInFlight
NextQuiet ==
    \E t \in Threads :
        \/ OthersIdle(t) /\ SetPitchScaleStore(t)
        \/ SetPitchScaleDirty(t)
        \/ NoSetter /\ PitchScale(t)
        \/ NoSetter /\ SetFormantScale(t)
        \/ NoSetter /\ SetFormantOption(t)
        \/ NoSetter /\ ProcessInto(t)
        \/ ProcessIntoValidate(t)
        \/ ProcessIntoLoadDirty(t)
        \/ ProcessIntoPush(t)
        \/ ProcessIntoClear(t)
        \/ ProcessIntoShift(t)
        \/ NoSetter /\ StartDelayCall(t)
        \/ StartDelayLock(t)
        \/ StartDelayLoadDirty(t)
        \/ StartDelayPush(t)
        \/ StartDelayClear(t)
        \/ StartDelayQuery(t)
        \/ NoSetter /\ ResetCall(t)
        \/ ResetLock(t)
        \/ ResetEngine(t)

SpecQuiet == Init /\ [][NextQuiet]_vars

\* One caller alone calls process_into and process with buffers of every
\* shape.
Caller == 1
NextShapes ==
    \/ ProcessIntoAnyShape(Caller)
    \/ ProcessAllocate(Caller)
    \/ ProcessCall(Caller)
    \/ ProcessIntoValidate(Caller)
    \/ ProcessIntoLoadDirty(Caller)
    \/ ProcessIntoShift(Caller)

SpecShapes == Init /\ [][NextShapes]_vars

-----------------------------------------------------------------------------
(* Ordering::Relaxed: the two stores of set_pitch_scale, to two atomics, may
   reach another thread in either order, and the two loads of a flush, of two
   atomics, may be made in either order. *)

\* set_pitch_scale: self.pitch_dirty.store(true, Relaxed) reaches the other
\* threads before self.pitch_scale.store(scale, Relaxed) does
SetPitchScaleDirtyFirst(t) ==
    \E scale \in Scales :
        /\ pc[t] = "idle"
        /\ pc' = [pc EXCEPT ![t] = "sps_store"]
        /\ input' = [input EXCEPT ![t] = <<scale>>]
        /\ pitch_dirty' = TRUE
        /\ lastSet' = scale
        /\ returned' = NoReturn
        /\ SetCallStarts
        /\ UNCHANGED <<mutex, pitch_scale, engineVars, output, wrapped,
                       instanceVars>>

\* set_pitch_scale: the store of the value reaches the other threads after
\* that of dirty; the call returns
SetPitchScaleStoreLate(t) ==
    /\ pc[t] = "sps_store"
    /\ pitch_scale' = input[t][1]
    /\ ReturnWith(t, "set_pitch_scale", Unit, input[t], NoBuffers)
    /\ UNCHANGED <<mutex, pitch_dirty, lastSet, engineVars>>
    /\ NoHistory

\* start_delay: self.pitch_scale.load(Relaxed) is made before
\* self.pitch_dirty.load(Relaxed)
StartDelayLoadValueEarly(t) ==
    /\ pc[t] = "sd_dirty"
    /\ input' = [input EXCEPT ![t] = <<pitch_scale>>]
    /\ Goto(t, "sd_dirty_late")
    /\ UNCHANGED <<mutex, stagingVars, engineVars, output>>
    /\ NoHistory

\* start_delay: if self.pitch_dirty.load(Relaxed), the value being loaded
\* already
StartDelayLoadDirtyLate(t) ==
    /\ pc[t] = "sd_dirty_late"
    /\ Goto(t, IF pitch_dirty THEN "sd_push_early" ELSE "sd_query")
    /\ UNCHANGED <<mutex, stagingVars, engineVars, bufferVars>>
    /\ NoHistory

\* start_delay: rubberband_live_set_pitch_scale(state, the value loaded)
StartDelayPushEarly(t) ==
    /\ pc[t] = "sd_push_early"
    /\ enginePitch' = input[t][1]
    /\ Goto(t, "sd_clear")
    /\ UNCHANGED <<mutex, stagingVars, engineFormantScale, engineFormantOption,
                   engineHistory, bufferVars>>
    /\ NoHistory

\* One thread calls set_pitch_scale, the others process_into and start_delay,
\* the relaxed stores and loads in either order.
NextRelaxed ==
    \/ SetPitchScaleStore(Caller)
    \/ SetPitchScaleDirty(Caller)
    \/ SetPitchScaleDirtyFirst(Caller)
    \/ SetPitchScaleStoreLate(Caller)
    \/ \E t \in Threads \ {Caller} :
        \/ ProcessIntoGood(t)
        \/ ProcessIntoValidate(t)
        \/ ProcessIntoLoadDirty(t)
        \/ ProcessIntoPush(t)
        \/ ProcessIntoClear(t)
        \/ ProcessIntoShift(t)
        \/ StartDelayCall(t)
        \/ StartDelayLock(t)
        \/ StartDelayLoadDirty(t)
        \/ StartDelayLoadValueEarly(t)
        \/ StartDelayLoadDirtyLate(t)
        \/ StartDelayPush(t)
        \/ StartDelayPushEarly(t)
        \/ StartDelayClear(t)
        \/ StartDelayQuery(t)

SpecRelaxed == Init /\ [][NextRelaxed]_vars

\* Every call that takes the guard: one thread calls process, with input of
\* every shape, and every thread process_into, with rightly shaped buffers,
\* start_delay and reset, and set_pitch_scale, which gives the flushes
\* something to push.
NextGuard ==
    \/ ProcessAllocate(Caller)
    \/ ProcessCall(Caller)
    \/ \E t \in Threads :
        \/ SetPitchScaleStore(t)
        \/ SetPitchScaleDirty(t)
        \/ ProcessIntoGood(t)
        \/ ProcessIntoValidate(t)
        \/ ProcessIntoLoadDirty(t)
        \/ ProcessIntoPush(t)
        \/ ProcessIntoClear(t)
        \/ ProcessIntoShift(t)
        \/ StartDelayCall(t)
        \/ StartDelayLock(t)
        \/ StartDelayLoadDirty(t)
        \/ StartDelayPush(t)
        \/ StartDelayClear(t)
        \/ StartDelayQuery(t)
        \/ ResetCall(t)
        \/ ResetLock(t)
        \/ ResetEngine(t)

SpecGuard == Init /\ [][NextGuard]_vars

\* The three setters of the pitch scale and its getter, beside process_into
\* and start_delay, whose flushes push what the setters stage, and reset.
NextPitch ==
    \E t \in Threads :
        \/ SetPitchScaleStore(t)
        \/ SetPitchScaleDirty(t)
        \/ SetPitchSemitoneStore(t)
        \/ SetPitchSemitoneDirty(t)
        \/ SetPitchCentStore(t)
        \/ SetPitchCentDirty(t)
        \/ PitchScale(t)
        \/ ProcessIntoGood(t)
        \/ ProcessIntoValidate(t)
        \/ ProcessIntoLoadDirty(t)
        \/ ProcessIntoPush(t)
        \/ ProcessIntoClear(t)
        \/ ProcessIntoShift(t)
        \/ StartDelayCall(t)
        \/ StartDelayLock(t)
        \/ StartDelayLoadDirty(t)
        \/ StartDelayPush(t)
        \/ StartDelayClear(t)
        \/ StartDelayQuery(t)
        \/ ResetCall(t)
        \/ ResetLock(t)
        \/ ResetEngine(t)

SpecPitch == Init /\ [][NextPitch]_vars

\* One thread keeps calling process, with input of every shape, while the
\* other threads keep calling reset.
NextProcess ==
    \/ ProcessAllocate(Caller)
    \/ ProcessCall(Caller)
    \/ ProcessIntoValidate(Caller)
    \/ ProcessIntoLoadDirty(Caller)
    \/ ProcessIntoShift(Caller)
    \/ \E t \in Threads \ {Caller} :
        \/ ResetCall(t)
        \/ ResetLock(t)
        \/ ResetEngine(t)

SpecProcess == Init /\ [][NextProcess]_vars

\* The life of an instance from LiveShifterBuilder::new on: it is built, and
\* one thread then calls its methods one after another.
NextLifetime ==
    \/ New
    \/ Build
    \/ SetPitchScaleStore(Caller)
    \/ SetPitchScaleDirty(Caller)
    \/ SetFormantScale(Caller)
    \/ SetFormantOption(Caller)
    \/ ChannelCountQuery(Caller)
    \/ BlockSizeQuery(Caller)
    \/ SampleRateQuery(Caller)
    \/ ProcessIntoFitting(Caller)
    \/ ProcessIntoValidate(Caller)
    \/ ProcessIntoLoadDirty(Caller)
    \/ ProcessIntoPush(Caller)
    \/ ProcessIntoClear(Caller)
    \/ ProcessIntoShift(Caller)
    \/ StartDelayCall(Caller)
    \/ StartDelayLock(Caller)
    \/ StartDelayLoadDirty(Caller)
    \/ StartDelayPush(Caller)
    \/ StartDelayClear(Caller)
    \/ StartDelayQuery(Caller)
    \/ ResetCall(Caller)
    \/ ResetLock(Caller)
    \/ ResetEngine(Caller)

SpecLifetime == InitBuilder /\ [][NextLifetime]_vars

\* The construction of an instance, and the guarded operations a thread then
\* calls on it without ever setting a pitch scale, while any thread sets the
\* formant option.
NextBuilder ==
    \/ New
    \/ Window
    \/ Formant
    \/ ChannelMode
    \/ DebugLevel
    \/ Build
    \/ ProcessIntoFitting(Caller)
    \/ ProcessIntoValidate(Caller)
    \/ ProcessIntoLoadDirty(Caller)
    \/ ProcessIntoShift(Caller)
    \/ StartDelayCall(Caller)
    \/ StartDelayLock(Caller)
    \/ StartDelayLoadDirty(Caller)
    \/ StartDelayQuery(Caller)
    \/ ResetCall(Caller)
    \/ ResetLock(Caller)
    \/ ResetEngine(Caller)
    \/ \E t \in Threads : SetFormantOption(t)

SpecBuilder == InitBuilder /\ [][NextBuilder]_vars

-----------------------------------------------------------------------------
(* The claims *)

\* Where a thread is between acquiring the guard and returning.
ProcessPcs == {"pi_validate", "pi_dirty", "pi_push", "pi_clear", "pi_shift"}
FlushShiftPcs == {"pi_dirty", "pi_push", "pi_clear", "pi_shift"}
DelayPcs == {"sd_dirty", "sd_push", "sd_clear", "sd_query"}
ResetPcs == {"rs_reset"}
GuardedPcs == ProcessPcs \cup DelayPcs \cup ResetPcs
PushPcs == {"pi_push", "sd_push"}

\* Thread t is inside a guarded engine call: the flush and shift of
\* process_into, the engine's reset, the flush and delay query of start_delay.
InEngineCall(t) == pc[t] \in FlushShiftPcs \cup DelayPcs \cup ResetPcs

GoodBuffers(in, out) == ShapeOf(in) = GoodShape /\ ShapeOf(out) = GoodShape
Untouched(buffers) ==
    \A ch \in 1..Len(buffers) : \A i \in 1..Len(buffers[ch]) :
        buffers[ch][i] = CallerSample
IsError(r) == r[1] \in {"InconsistentChannelCount", "InconsistentBlockSize"}

\* The step is thread t's call of process_into: it acquires the guard, or
\* returns at once.
CallsProcessInto(t) ==
    /\ pc[t] = "idle"
    /\ \/ pc'[t] = "pi_validate"
       \/ returned'.thread = t /\ returned'.call = "process_into"

\* The step is the return of r from thread t's process_into.
ProcessIntoReturns(t, r) ==
    /\ returned'.thread = t
    /\ returned'.call = "process_into"
    /\ returned'.value = r

\* C1: no two threads are at once inside the guarded engine calls (shift and
\* its flush, reset, the flush and delay query of start_delay).
C1_MutualExclusion ==
    \A t, u \in Threads : (t # u /\ InEngineCall(t)) => ~InEngineCall(u)

\* C1 witness: a thread is in shift while another waits in reset.
C1_Witness ==
    \E t, u \in Threads : pc[t] = "pi_shift" /\ pc[u] = "rs_lock"

\* C2: process_into never waits for the guard: an idle thread can always take
\* the step of calling it, and when the guard is held that step alone returns
\* OperationInProgress, the holder not moving.
C2_NeverWaits ==
    /\ [](\A t \in Threads : pc[t] = "idle" => ENABLED ProcessInto(t))
    /\ [][\A t \in Threads :
            (CallsProcessInto(t) /\ mutex # Free) =>
                /\ pc'[t] = "idle"
                /\ ProcessIntoReturns(t, OperationInProgress)
                /\ mutex' = mutex
                /\ \A u \in Threads : pc'[u] = pc[u]]_vars

\* C2 witness: a thread has just been returned OperationInProgress and the
\* holder of the guard has not yet validated its buffers.
C2_Witness ==
    /\ returned.value = OperationInProgress
    /\ \E u \in Threads \ {returned.thread} : mutex = u /\ pc[u] = "pi_validate"

\* C3: a process_into call that returns OperationInProgress changes neither
\* the dirty flag, the staged pitch scale, the guard nor the engine, and
\* writes no output sample.
C3_BusyNoEffect ==
    [][\A t \in Threads :
         ProcessIntoReturns(t, OperationInProgress) =>
             /\ UNCHANGED <<pitch_dirty, pitch_scale, mutex, engineVars>>
             /\ pc[t] = "idle"
             /\ Untouched(returned'.output)]_vars

\* C3 witness: OperationInProgress was returned while a staged value was
\* pending, and the value is still pending.
C3_Witness ==
    /\ returned.value = OperationInProgress
    /\ pitch_dirty
    /\ enginePitch # pitch_scale

\* A call with rightly shaped buffers that has the guard goes on to shift
\* and returns Ok.
GoodCallReturnsOk(t) ==
    /\ (pc[t] = "pi_validate" /\ GoodBuffers(input[t], output[t]))
           => pc'[t] \in {"pi_validate", "pi_dirty"}
    /\ pc[t] \in {"pi_dirty", "pi_push", "pi_clear"} => pc'[t] # "idle"
    /\ (pc[t] = "pi_shift" /\ pc'[t] = "idle") => ProcessIntoReturns(t, Ok)

\* C4: of the process_into calls with rightly shaped buffers whose guarded
\* sections would overlap, one is inside the section and returns Ok, the
\* others return OperationInProgress; nothing else is returned.
C4_OneWinner ==
    /\ [](\A t, u \in Threads :
            (t # u /\ pc[t] \in ProcessPcs) => pc[u] \notin ProcessPcs)
    /\ []((returned.call = "process_into"
            /\ GoodBuffers(returned.input, returned.output))
           => returned.value \in {Ok, OperationInProgress})
    /\ [][\A t \in Threads :
            /\ (CallsProcessInto(t) /\ \E u \in Threads : pc[u] \in ProcessPcs)
                   => ProcessIntoReturns(t, OperationInProgress)
            /\ GoodCallReturnsOk(t)]_vars

\* C4 witness: a rightly shaped call has returned OperationInProgress and the
\* rightly shaped call it lost to is in its shift.
C4_Witness ==
    /\ returned.call = "process_into"
    /\ returned.value = OperationInProgress
    /\ GoodBuffers(returned.input, returned.output)
    /\ \E u \in Threads \ {returned.thread} :
           pc[u] = "pi_shift" /\ GoodBuffers(input[u], output[u])

\* C5: process_into returns OperationInProgress only if another thread holds
\* the guard inside process_into, reset or start_delay at the attempt; a call
\* made while every other thread is idle or inside set_pitch_scale (the other
\* setters take one step) acquires the guard, and returns Ok if its buffers
\* are rightly shaped.
C5_BusyOnlyIfHeld ==
    [][\A t \in Threads :
         /\ ProcessIntoReturns(t, OperationInProgress)
                => \E u \in Threads \ {t} : mutex = u /\ pc[u] \in GuardedPcs
         /\ (CallsProcessInto(t)
               /\ \A u \in Threads \ {t} : pc[u] \in {"idle", "sps_dirty"})
                => pc'[t] = "pi_validate" /\ mutex' = t
         /\ GoodCallReturnsOk(t)]_vars

\* C5 witness: a process_into call has returned Ok while another thread is
\* inside set_pitch_scale.
C5_Witness ==
    /\ returned.call = "process_into"
    /\ returned.value = Ok
    /\ \E u \in Threads \ {returned.thread} : pc[u] = "sps_dirty"

\* C6: once set_pitch_scale(x) has returned and no later set_pitch_scale is
\* called, the first process_into or start_delay that starts afterwards runs
\* the engine's shift or delay query with the engine's pitch scale equal to x.
C6_SetTakesEffect ==
    \A t \in Threads :
        (pc[t] \in {"pi_shift", "sd_query"} /\ noSetSince[t])
            => enginePitch = pitch_scale

\* C7: the engine's pitch-scale setter is called only by the thread that
\* holds the guard, and the engine's pitch scale changes only in such a call,
\* never in a step of set_pitch_scale and never while a thread is in shift.
C7_PushUnderGuard ==
    /\ [](\A t \in Threads : pc[t] \in PushPcs => mutex = t)
    /\ [][enginePitch' # enginePitch =>
            /\ \E t \in Threads :
                 pc[t] \in PushPcs /\ mutex = t /\ pc'[t] # pc[t]
            /\ \A u \in Threads : pc[u] # "pi_shift"]_vars

\* C7 witness: a thread is at the engine's pitch-scale setter, holding the
\* guard, while another thread is inside set_pitch_scale.
C7_Witness ==
    \E t, u \in Threads :
        pc[t] \in PushPcs /\ mutex = t /\ pc[u] = "sps_dirty"

\* C8: pitch_scale() returns the argument of the latest set_pitch_scale
\* store, flushed or not, and 1.0 when there was none.
C8_ReadBack ==
    returned.call = "pitch_scale" => returned.value = Value(lastSet)

\* C8 witness: pitch_scale() has returned a value that was set and has not
\* been flushed into the engine.
C8_Witness ==
    /\ returned.call = "pitch_scale"
    /\ returned.value = Value(lastSet)
    /\ lastSet # InitialPitchScale
    /\ pitch_dirty
    /\ enginePitch # lastSet

\* C9: a process_into call that fails the shape validation returns the error
\* with the dirty flag, the staged value and the engine unchanged and no
\* output sample written; the flush and the shift are reached with rightly
\* shaped buffers only.
C9_InvalidNoEffect ==
    /\ [](\A t \in Threads :
            pc[t] \in FlushShiftPcs => GoodBuffers(input[t], output[t]))
    /\ [][\A t \in Threads :
            (pc[t] = "pi_validate" /\ pc'[t] = "idle") =>
                /\ returned'.thread = t
                /\ IsError(returned'.value)
                /\ UNCHANGED <<pitch_dirty, pitch_scale, engineVars>>
                /\ returned'.output = output[t]
                /\ Untouched(returned'.output)]_vars

\* C9 witness: InconsistentBlockSize was returned and the staged value that
\* was pending is still pending.
C9_Witness ==
    /\ returned.value[1] = "InconsistentBlockSize"
    /\ pitch_dirty
    /\ enginePitch # pitch_scale

\* C10: the guard is held exactly while a thread is between the acquisition
\* and the return of a process_into, reset or start_delay call, by that
\* thread; whatever the call returns, the guard is free again afterwards.
C10_GuardReleased ==
    /\ mutex \in Threads \cup {Free}
    /\ \A t \in Threads : mutex = t <=> pc[t] \in GuardedPcs

\* C10 witness: process_into has returned InconsistentChannelCount, every
\* thread is idle and the guard is free.
C10_Witness ==
    /\ returned.value[1] = "InconsistentChannelCount"
    /\ \A t \in Threads : pc[t] = "idle"
    /\ mutex = Free

\* The last step returned the outcome of process_into's validation, shift
\* included, to a caller that had the guard.
Validated ==
    /\ returned.call \in {"process_into", "process"}
    /\ returned.value \notin {OperationInProgress, Panic}

\* The call that has just returned had buffers of the right channel counts,
\* some channel of which was of the wrong length.
BlockSizeCase ==
    /\ Validated
    /\ Len(returned.input) = EngineChannelCount
    /\ Len(returned.output) = EngineChannelCount
    /\ WrongChannels(returned.input) \cup WrongChannels(returned.output) # {}

\* InconsistentBlockSize for channel ch (counted from 1) of buffers.
BlockSizeError(buffers, ch) ==
    InconsistentBlockSize(ch - 1, EngineBlockSize, Len(buffers[ch]))

\* C11 as stated: with the right channel counts, process_into reports the
\* lowest input channel of wrong length if there is one, and the lowest
\* output channel of wrong length only if every input channel is right.
C11_InputsFirst ==
    BlockSizeCase =>
        returned.value =
            IF WrongChannels(returned.input) # {}
            THEN BlockSizeError(returned.input,
                                Lowest(WrongChannels(returned.input)))
            ELSE BlockSizeError(returned.output,
                                Lowest(WrongChannels(returned.output)))

\* C11 amended: with the right channel counts, process_into reports the
\* lowest channel index at which the input or the output is of wrong length,
\* with the input's length if the input is wrong at that index and the
\* output's length otherwise.
C11_PerChannel ==
    BlockSizeCase =>
        LET ch == Lowest(WrongChannels(returned.input)
                             \cup WrongChannels(returned.output))
        IN  returned.value =
                IF ch \in WrongChannels(returned.input)
                THEN BlockSizeError(returned.input, ch)
                ELSE BlockSizeError(returned.output, ch)

\* C11 witness: an output channel was reported although an input channel of
\* higher index was wrong too.
C11_Witness ==
    /\ BlockSizeCase
    /\ WrongChannels(returned.input) # {}
    /\ WrongChannels(returned.output) # {}
    /\ Lowest(WrongChannels(returned.output))
           < Lowest(WrongChannels(returned.input))
    /\ returned.value =
           BlockSizeError(returned.output,
                          Lowest(WrongChannels(returned.output)))

\* C12: the channel counts are checked before any block size, the input's
\* before the output's: a wrong input count is reported with the input's
\* count, otherwise a wrong output count with the output's, and
\* InconsistentBlockSize is returned only when both counts are right.
C12_ChannelCountFirst ==
    Validated =>
        /\ Len(returned.input) # EngineChannelCount =>
               returned.value = InconsistentChannelCount(EngineChannelCount,
                                                         Len(returned.input))
        /\ (Len(returned.input) = EngineChannelCount
               /\ Len(returned.output) # EngineChannelCount) =>
               returned.value = InconsistentChannelCount(EngineChannelCount,
                                                         Len(returned.output))
        /\ returned.value[1] = "InconsistentBlockSize" =>
               /\ Len(returned.input) = EngineChannelCount
               /\ Len(returned.output) = EngineChannelCount

\* C12 witness: the input's count was reported although the output's count
\* was wrong too, and different, and a channel was of the wrong length.
C12_Witness ==
    /\ Validated
    /\ Len(returned.input) # EngineChannelCount
    /\ Len(returned.output) \notin {EngineChannelCount, Len(returned.input)}
    /\ WrongChannels(returned.input) # {}
    /\ returned.value = InconsistentChannelCount(EngineChannelCount,
                                                 Len(returned.input))

\* C13: process() returns InconsistentChannelCount for every input whose
\* channel count differs from the engine's, the input of no channel
\* included, and never panics.
C13_ProcessNeverPanics ==
    returned.call = "process" =>
        /\ returned.value # Panic
        /\ (Len(returned.input) # EngineChannelCount
               /\ returned.value # OperationInProgress) =>
               returned.value = InconsistentChannelCount(EngineChannelCount,
                                                         Len(returned.input))

\* The step is one of thread t's reset call: the call, the acquisition of
\* the guard, or the engine's reset and the return.
ResetStep(t) ==
    \/ pc[t] = "idle" /\ pc'[t] = "rs_lock"
    \/ pc[t] \in {"rs_lock", "rs_reset"} /\ pc'[t] # pc[t]

\* C14: no step of reset changes the dirty flag, the staged pitch scale or
\* the engine's pitch scale; a flush that finds the flag set, after a reset
\* as at any time, goes on to push the staged value into the engine.
C14_ResetKeepsStaging ==
    [][\A t \in Threads :
         /\ ResetStep(t) => UNCHANGED <<pitch_dirty, pitch_scale, enginePitch>>
         /\ (pc[t] \in {"pi_dirty", "sd_dirty"} /\ pc'[t] # pc[t] /\ pitch_dirty)
                => pc'[t] \in PushPcs
         /\ (pc[t] \in PushPcs /\ pc'[t] # pc[t])
                => enginePitch' = pitch_scale]_vars

\* C14 witness: reset has returned and the staged value that was pending
\* is still pending.
C14_Witness ==
    /\ returned.call = "reset"
    /\ pitch_dirty
    /\ enginePitch # pitch_scale

\* Where a thread waits in self.mutex.lock().
LockPcs == {"rs_lock", "sd_lock"}

\* C15: reset and start_delay never return an error, pass lock() only when
\* the guard is free, taking it, and return only while holding it; under
\* fair scheduling every reset or start_delay call in lock() returns, hence
\* has acquired the guard, whatever process_into calls the other threads
\* keep making.
C15_BlockingAcquisition ==
    /\ [](returned.call = "reset" => returned.value = Unit)
    /\ [](returned.call = "start_delay" => returned.value[1] = "Value")
    /\ [][\A t \in Threads :
            (pc[t] \in LockPcs /\ pc'[t] # pc[t])
                => mutex = Free /\ mutex' = t /\ pc'[t] \in GuardedPcs]_vars
    /\ [][\A t \in Threads :
            (returned'.thread = t /\ returned'.call \in {"reset", "start_delay"})
                => mutex = t]_vars
    /\ \A t \in Threads :
           /\ (pc[t] = "rs_lock")
                  ~> (returned.thread = t /\ returned.call = "reset")
           /\ (pc[t] = "sd_lock")
                  ~> (returned.thread = t /\ returned.call = "start_delay")

\* C15 witness: a thread waits in start_delay's lock() while another holds
\* the guard inside process_into.
C15_Witness ==
    \E t, u \in Threads :
        pc[t] = "sd_lock" /\ mutex = u /\ pc[u] \in ProcessPcs

\* C16: start_delay flushes before it queries, under the guard: when no
\* set_pitch_scale call is concurrent with another call, the delay is
\* queried by the holder of the guard with the engine's pitch scale equal
\* to the latest value set and the dirty flag false, and the delay returned
\* is the engine's delay at that value.
C16_FlushBeforeQuery ==
    /\ \A t \in Threads :
           /\ pc[t] \in DelayPcs => mutex = t
           /\ pc[t] = "sd_query" => enginePitch = lastSet /\ ~pitch_dirty
    /\ returned.call = "start_delay" =>
           /\ returned.value = Value(EngineStartDelay(lastSet))
           /\ ~pitch_dirty

\* C16 witness: start_delay is at its query right after its own flush of a
\* value that was set, no block having been shifted since the last reset.
C16_Witness ==
    \E t \in Threads :
        /\ pc[t] = "sd_query"
        /\ lastSet # InitialPitchScale
        /\ enginePitch = lastSet
        /\ ~engineHistory

\* C17: whatever the interleaving of set_pitch_scale and start_delay calls,
\* the engine's pitch scale at a delay query, and the staged value a flush
\* is about to push, is one of the values passed to set_pitch_scale or the
\* initial 1.0.
C17_OnlyRequestedValues ==
    /\ pitch_scale \in Scales \cup {InitialPitchScale}
    /\ \A t \in Threads :
           pc[t] = "sd_query" => enginePitch \in Scales \cup {InitialPitchScale}
    /\ returned.call = "start_delay" =>
           \E p \in Scales \cup {InitialPitchScale} :
               returned.value = Value(EngineStartDelay(p))

\* C17 witness: start_delay queries the delay at a value that was set while
\* another thread is in the middle of set_pitch_scale with a different
\* value.
C17_Witness ==
    \E t, u \in Threads :
        /\ pc[t] = "sd_query"
        /\ pc[u] = "sps_dirty"
        /\ enginePitch # InitialPitchScale
        /\ pitch_scale # enginePitch

C19_BuilderNew ==
    returned.call = "new" =>
        LET sample_rate == returned.input[1]
            channels == returned.input[2]
        IN  /\ builder = returned.value
            /\ state = NoEngine
            /\ sample_rate = 0 =>
                   /\ returned.value[1] = "UnsupportedSampleRate"
                   /\ returned.value[2] = sample_rate
            /\ (sample_rate > 0 /\ channels = 0) =>
                   /\ returned.value[1] = "UnsupportedChannelCount"
                   /\ returned.value[2] = channels
            /\ (sample_rate > 0 /\ channels > 0) =>
                   /\ returned.value[1] = "Builder"
                   /\ returned.value[2] =
                          [sample_rate |-> sample_rate, channels |-> channels,
                           window |-> "Short", formant |-> "Shifted",
                           channel_mode |-> "Apart", debug_level |-> 0]
            /\ returned.value[1] # "Builder" => ~ENABLED Build

\* C19 witness: new(0, 0) has returned UnsupportedSampleRate and there is
\* no engine.
C19_Witness ==
    /\ returned.call = "new"
    /\ returned.input = <<0, 0>>
    /\ returned.value[1] = "UnsupportedSampleRate"
    /\ state = NoEngine

\* The accessors that complete in the step of their call.
OneStepAccessors ==
    {"formant_scale", "set_formant_scale", "set_formant_option",
     "channel_count", "block_size", "sample_rate", "pitch_scale"}

\* The step is one of an accessor call of thread t: a one-step accessor, or
\* one of the two stores of set_pitch_scale.
AccessorStep(t) ==
    \/ returned'.thread = t /\ returned'.call \in OneStepAccessors
    \/ pc[t] = "idle" /\ pc'[t] = "sps_dirty"
    \/ pc[t] = "sps_dirty" /\ pc'[t] = "idle"

\* C20: formant_scale, set_formant_scale, set_formant_option, channel_count,
\* block_size, sample_rate, pitch_scale and set_pitch_scale never wait for
\* the guard, each of their steps being enabled whoever holds it, and none
\* of their steps changes the guard or moves another thread.
C20_AccessorsBypassGuard ==
    /\ [](\A t \in Threads :
            /\ pc[t] = "idle" =>
                   /\ ENABLED FormantScale(t)
                   /\ ENABLED SetFormantScale(t)
                   /\ ENABLED SetFormantOption(t)
                   /\ ENABLED ChannelCountQuery(t)
                   /\ ENABLED BlockSizeQuery(t)
                   /\ ENABLED SampleRateQuery(t)
                   /\ ENABLED PitchScale(t)
                   /\ ENABLED SetPitchScaleStore(t)
            /\ pc[t] = "sps_dirty" => ENABLED SetPitchScaleDirty(t))
    /\ [][\A t \in Threads :
            AccessorStep(t) =>
                /\ mutex' = mutex
                /\ \A u \in Threads \ {t} : pc'[u] = pc[u]
                /\ returned'.call \in OneStepAccessors => pc[t] = "idle"]_vars

\* C20 witness: channel_count has returned while another thread holds the
\* guard in its shift.
C20_Witness ==
    /\ returned.call = "channel_count"
    /\ \E u \in Threads \ {returned.thread} : mutex = u /\ pc[u] = "pi_shift"

-----------------------------------------------------------------------------
\* The builder's field keeps its value in every step but the return of its
\* own setter (method) and of new.
FieldSetOnlyBy(field, method) ==
    (/\ builder[1] = "Builder"
     /\ builder'[1] = "Builder"
     /\ builder'[2][field] # builder[2][field]) =>
        returned'.call \in {method, "new"}

\* The flags of the three choices.
WindowFlags == {"OPTION_BITS_WINDOW_SHORT", "OPTION_BITS_WINDOW_MEDIUM"}
FormantFlags == {"OPTION_BITS_FORMANT_SHIFTED", "OPTION_BITS_FORMANT_PRESERVED"}
ChannelsFlags == {"OPTION_BITS_CHANNELS_APART", "OPTION_BITS_CHANNELS_TOGETHER"}

\* The options hold one flag of each choice and nothing else.
OneFlagPerChoice(options) ==
    /\ Cardinality(options \cap WindowFlags) = 1
    /\ Cardinality(options \cap FormantFlags) = 1
    /\ Cardinality(options \cap ChannelsFlags) = 1
    /\ options \subseteq WindowFlags \cup FormantFlags \cup ChannelsFlags

\* The options hold the flags of builder b's three choices.
FlagsAsChosen(options, b) ==
    /\ ("OPTION_BITS_WINDOW_MEDIUM" \in options) = (b.window = "Medium")
    /\ ("OPTION_BITS_WINDOW_SHORT" \in options) = (b.window = "Short")
    /\ ("OPTION_BITS_FORMANT_PRESERVED" \in options) = (b.formant = "Preserved")
    /\ ("OPTION_BITS_FORMANT_SHIFTED" \in options) = (b.formant = "Shifted")
    /\ ("OPTION_BITS_CHANNELS_TOGETHER" \in options) = (b.channel_mode = "Together")
    /\ ("OPTION_BITS_CHANNELS_APART" \in options) = (b.channel_mode = "Apart")

\* C21: each setter of the builder leaves the value it was given in its field,
\* which nothing but that setter changes; when build returns, the engine has
\* been created with the builder's sample rate and channel count and with
\* options made of exactly one flag per choice, the flag of the builder's
\* window, formant option and channel mode; its debug level is the builder's;
\* the staged pitch scale is 1.0 and not dirty.  As long as no pitch scale is
\* set, no guarded operation on the instance reaches the push of a pitch
\* scale, and the engine's pitch scale stays what it was created with.
C21_Build ==
    /\ [](/\ returned.call \in {"window", "formant", "channel_mode", "debug_level"} =>
                builder[2][returned.call] = returned.input[1]
          /\ returned.call = "build" =>
                LET b == returned.input[1]
                IN  /\ OneFlagPerChoice(engineConfig.options)
                    /\ FlagsAsChosen(engineConfig.options, b)
                    /\ engineConfig.sample_rate = b.sample_rate
                    /\ engineConfig.channels = b.channels
                    /\ engineConfig.debug_level = b.debug_level
                    /\ engineFormantOption = b.formant
                    /\ state = Live
                    /\ pitch_scale = InitialPitchScale
                    /\ ~pitch_dirty
                    /\ mutex = Free
          /\ \A t \in Threads : pc[t] \notin PushPcs
          /\ state = Live => enginePitch = InitialPitchScale)
    /\ [][/\ FieldSetOnlyBy("window", "window")
          /\ FieldSetOnlyBy("formant", "formant")
          /\ FieldSetOnlyBy("channel_mode", "channel_mode")
          /\ FieldSetOnlyBy("debug_level", "debug_level")
          /\ FieldSetOnlyBy("sample_rate", "new")
          /\ FieldSetOnlyBy("channels", "new")]_vars

\* C21 witness: an instance built with the medium window, preserved formants,
\* the channels together and debug level 1 has returned Ok from its first
\* process_into, the engine's pitch scale still 1.0.
C21_Witness ==
    /\ returned.call = "process_into"
    /\ returned.value = Ok
    /\ engineConfig.options = {"OPTION_BITS_WINDOW_MEDIUM",
                               "OPTION_BITS_FORMANT_PRESERVED",
                               "OPTION_BITS_CHANNELS_TOGETHER"}
    /\ engineConfig.debug_level = 1
    /\ enginePitch = InitialPitchScale

\* C22: a process_into call made while the guard is held returns
\* OperationInProgress, whatever the shapes of its buffers; a process_into
\* that returns InconsistentChannelCount or InconsistentBlockSize holds the
\* guard when it does, having acquired it at its call.
C22_BusyBeforeValidation ==
    [][\A t \in Threads :
          /\ (CallsProcessInto(t) /\ mutex # Free) =>
                 ProcessIntoReturns(t, OperationInProgress)
          /\ (/\ returned'.thread = t
              /\ returned'.call = "process_into"
              /\ IsError(returned'.value)) =>
                 (mutex = t /\ pc[t] = "pi_validate")]_vars

\* C22 witness: a process_into call with wrongly shaped buffers has returned
\* OperationInProgress while another thread was holding the guard.
C22_Witness ==
    /\ returned.call = "process_into"
    /\ returned.value = OperationInProgress
    /\ Validate(returned.input, returned.output) # Ok
    /\ mutex \in Threads \ {returned.thread}

\* Thread t takes the step.
Steps(t) == pc'[t] # pc[t]

\* C23: a process_into acquires the guard at its call, then validates the
\* shapes, then runs the flush (the load of dirty, the push and the clear),
\* then the shift, and releases the guard as it returns Ok; it holds the
\* guard from the validation to the shift, and while it is in its flush or at
\* its shift no other thread pushes a pitch scale, shifts or resets.
C23_OneCriticalSection ==
    [][\A t \in Threads :
          /\ (Steps(t) /\ pc'[t] = "pi_validate") =>
                 (pc[t] = "idle" /\ mutex = Free /\ mutex' = t)
          /\ (Steps(t) /\ pc'[t] = "pi_dirty") =>
                 (pc[t] = "pi_validate" /\ Validate(input[t], output[t]) = Ok)
          /\ (Steps(t) /\ pc'[t] = "pi_push") => (pc[t] = "pi_dirty")
          /\ (Steps(t) /\ pc'[t] = "pi_clear") =>
                 (pc[t] = "pi_push" /\ enginePitch' = pitch_scale)
          /\ (Steps(t) /\ pc'[t] = "pi_shift") => (pc[t] \in {"pi_dirty", "pi_clear"})
          /\ ProcessIntoReturns(t, Ok) =>
                 (pc[t] = "pi_shift" /\ mutex = t /\ mutex' = Free)
          /\ pc[t] \in ProcessPcs => mutex = t
          /\ pc[t] \in FlushShiftPcs =>
                 \A u \in Threads \ {t} :
                     Steps(u) => /\ pc[u] \notin PushPcs \cup {"pi_shift", "rs_reset"}
                                 /\ enginePitch' = enginePitch
                                 /\ engineHistory' = engineHistory]_vars

\* C23 witness: a process_into has returned Ok after a flush that pushed a
\* pitch scale, with a reset waiting for the guard meanwhile.
C23_Witness ==
    /\ returned.call = "process_into"
    /\ returned.value = Ok
    /\ enginePitch # InitialPitchScale
    /\ \E u \in Threads : pc[u] = "rs_lock"

\* The statements of a flush: the load of dirty, the push, the clear.
LoadPcs == {"pi_dirty", "sd_dirty"}
ClearPcs == {"pi_clear", "sd_clear"}

\* C24: nothing but the push of a flush changes the engine's pitch scale, and
\* nothing but the clear of a flush makes dirty false.  A flush goes on to
\* its push only if it loads dirty = true, and the push is followed by the
\* clear; a flush that loads dirty = false goes straight on to the shift or
\* the delay query, changing neither the engine's pitch scale nor dirty.  With
\* no set_pitch_scale call concurrent with the operation, the clear of a flush
\* leaves dirty false and the engine's pitch scale equal to the staged one.
C24_FlushOnlyIfDirty ==
    [][\A t \in Threads :
          /\ (Steps(t) /\ enginePitch' # enginePitch) => pc[t] \in PushPcs
          /\ (Steps(t) /\ pitch_dirty /\ ~pitch_dirty') => pc[t] \in ClearPcs
          /\ (Steps(t) /\ pc'[t] \in PushPcs) => (pc[t] \in LoadPcs /\ pitch_dirty)
          /\ (Steps(t) /\ pc[t] \in PushPcs) =>
                 (pc'[t] \in ClearPcs /\ enginePitch' = pitch_scale)
          /\ (Steps(t) /\ pc[t] \in LoadPcs /\ ~pitch_dirty) =>
                 /\ pc'[t] \in {"pi_shift", "sd_query"}
                 /\ enginePitch' = enginePitch
                 /\ ~pitch_dirty'
          /\ (Steps(t) /\ pc[t] \in ClearPcs) =>
                 (~pitch_dirty' /\ enginePitch' = pitch_scale')]_vars

\* C24 witness: a start_delay is past its flush, at its delay query, after a
\* pitch scale of 0.5 was set: dirty is false and the engine's pitch scale is
\* the staged 0.5.
C24_Witness ==
    \E t \in Threads :
        /\ pc[t] = "sd_query"
        /\ ~pitch_dirty
        /\ enginePitch = 50
        /\ pitch_scale = 50

\* C25: a process call given input of channel_count channels of block_size
\* samples, made while other threads call reset, returns Ok or
\* OperationInProgress and nothing else; and no thread is in the engine's
\* reset while another is in the shift.
C25_ProcessAgainstReset ==
    /\ (returned.call = "process" /\ ShapeOf(returned.input) = GoodShape) =>
           returned.value \in {Ok, OperationInProgress}
    /\ \A t, u \in Threads : ~(pc[t] = "pi_shift" /\ pc[u] = "rs_reset")

\* C25 witness: process, given rightly shaped input, has returned
\* OperationInProgress while a reset holds the guard.
C25_Witness ==
    /\ returned.call = "process"
    /\ ShapeOf(returned.input) = GoodShape
    /\ returned.value = OperationInProgress
    /\ \E u \in Threads : pc[u] = "rs_reset" /\ mutex = u

\* The engine's parameters: what it was created with, its pitch scale, its
\* formant scale and its formant option.
EngineParameters ==
    <<engineConfig, enginePitch, engineFormantScale, engineFormantOption>>

OctaveScale(k) == CASE k = -1 -> 50 [] k = 0 -> 100 [] k = 1 -> 200

\* Thread t's step is the store of set_pitch_scale(scale): it stages scale
\* and changes neither dirty, nor the guard, nor the engine.
StoresScale(t, scale) ==
    /\ pc[t] = "idle"
    /\ pitch_scale' = scale
    /\ UNCHANGED <<pitch_dirty, mutex, engineVars, instanceVars>>

\* Thread t's step is the rest of set_pitch_scale: dirty becomes true, and
\* the staged value, the guard and the engine stay as they are.
StoresDirty(t) ==
    /\ pitch_dirty'
    /\ pc'[t] = "idle"
    /\ UNCHANGED <<pitch_scale, mutex, engineVars, instanceVars>>

\* C27: set_pitch_semitone(s) takes the two steps of set_pitch_scale(2^(s/12))
\* and set_pitch_cent(c) those of set_pitch_scale(2^(c/1200)), as
\* set_pitch_scale takes them itself: the first stages the scale, the second
\* sets dirty = true, and neither changes the guard or the engine.
C27_ConvenienceSetters ==
    [][\A t \in Threads :
          /\ (Steps(t) /\ pc'[t] = "sps_dirty") =>
                 (StoresScale(t, pitch_scale') /\ pitch_scale' \in Scales)
          /\ (Steps(t) /\ pc'[t] = "sst_dirty") =>
                 \E k \in Octaves :
                     /\ input'[t] = <<12 * k>>
                     /\ StoresScale(t, OctaveScale(k))
          /\ (Steps(t) /\ pc'[t] = "sct_dirty") =>
                 \E k \in Octaves :
                     /\ input'[t] = <<1200 * k>>
                     /\ StoresScale(t, OctaveScale(k))
          /\ (Steps(t) /\ pc[t] \in {"sps_dirty", "sst_dirty", "sct_dirty"}) =>
                 /\ StoresDirty(t)
                 /\ returned'.thread = t
                 /\ returned'.value = Unit
                 /\ returned'.call =
                        CASE pc[t] = "sps_dirty" -> "set_pitch_scale"
                          [] pc[t] = "sst_dirty" -> "set_pitch_semitone"
                          [] pc[t] = "sct_dirty" -> "set_pitch_cent"]_vars

\* C27 witness: set_pitch_semitone(12) has returned while another thread
\* holds the guard: the staged pitch scale is 2.0 and dirty, and the engine's
\* is still 1.0.
C27_Witness ==
    /\ returned.call = "set_pitch_semitone"
    /\ returned.input = <<12>>
    /\ pitch_scale = 200
    /\ pitch_dirty
    /\ enginePitch = InitialPitchScale
    /\ mutex \in Threads \ {returned.thread}

\* C27 witness for the cents: set_pitch_cent(-1200) has returned, the staged
\* pitch scale 0.5 and dirty.
C27_WitnessCent ==
    /\ returned.call = "set_pitch_cent"
    /\ returned.input = <<-1200>>
    /\ pitch_scale = 50
    /\ pitch_dirty

\* C28: the builder new returns holds the sample rate and the channel count
\* it was given, and build hands them on: to the engine, and the sample rate
\* to the instance as well.  From then on no call changes what the engine was
\* created with or the instance's sample rate, and at any time channel_count()
\* returns the engine's channel count, sample_rate() the instance's sample
\* rate and block_size() the one block size, whatever the sample rate.
C28_ConstantQueries ==
    /\ [](/\ (returned.call = "new" /\ returned.value[1] = "Builder") =>
                 /\ returned.value[2].sample_rate = returned.input[1]
                 /\ returned.value[2].channels = returned.input[2]
          /\ returned.call = "build" =>
                 /\ engineConfig.sample_rate = returned.input[1].sample_rate
                 /\ engineConfig.channels = returned.input[1].channels
                 /\ sample_rate_field = returned.input[1].sample_rate
          /\ returned.call = "channel_count" =>
                 returned.value = Value(engineConfig.channels)
          /\ returned.call = "sample_rate" =>
                 (/\ returned.value = Value(sample_rate_field)
                  /\ sample_rate_field = engineConfig.sample_rate)
          /\ returned.call = "block_size" => returned.value = Value(BlockSize))
    /\ [][/\ returned'.call = "build" => returned'.input[1] = builder[2]
          /\ state = Live =>
                 /\ engineConfig' = engineConfig
                 /\ sample_rate_field' = sample_rate_field]_vars

\* C28 witness: an instance built for sample rate 3 and one channel returns
\* 1 from channel_count() after it has shifted a block, pushed a pitch scale
\* of 0.5 to the engine and set the formant scale.
C28_Witness ==
    /\ returned.call = "channel_count"
    /\ returned.value = Value(1)
    /\ engineConfig.sample_rate = 3
    /\ engineHistory
    /\ enginePitch = 50
    /\ engineFormantScale = 200

\* C29: once an instance is built, no step changes what its engine was
\* created with, the flags of the window and of the channel mode among it;
\* the engine's formant option changes in no step but the return of
\* set_formant_option, which leaves the option it was given in the engine,
\* is a call of one step that an idle thread can take whoever holds the
\* guard, and leaves the guard as it is.
C29_FixedOptions ==
    /\ [](state = Live =>
              \A t \in Threads : pc[t] = "idle" => ENABLED SetFormantOption(t))
    /\ [][/\ state = Live => engineConfig' = engineConfig
          /\ (state = Live /\ engineFormantOption' # engineFormantOption) =>
                 returned'.call = "set_formant_option"
          /\ returned'.call = "set_formant_option" =>
                 /\ engineFormantOption' = returned'.input[1]
                 /\ mutex' = mutex
                 /\ pc[returned'.thread] = "idle"]_vars

\* C29 witness: on an instance built with the medium window, shifted formants
\* and the channels together, set_formant_option(Preserved) has returned
\* while another thread holds the guard, and the engine preserves formants.
C29_Witness ==
    /\ returned.call = "set_formant_option"
    /\ returned.input = <<"Preserved">>
    /\ engineFormantOption = "Preserved"
    /\ engineConfig.options = {"OPTION_BITS_WINDOW_MEDIUM",
                               "OPTION_BITS_FORMANT_SHIFTED",
                               "OPTION_BITS_CHANNELS_TOGETHER"}
    /\ mutex \in Threads \ {returned.thread}

\* The output buffers process allocates for the input in: as many channels,
\* each as long as the first channel of in.
FreshOutput(in) ==
    [ch \in 1..Len(in) |-> [i \in 1..Len(in[1]) |-> CallerSample]]

\* C30: a process call that gets as far as its process_into returns what
\* process_into returns for its input and an output of as many channels, each
\* of the length of the first input channel: OperationInProgress if the guard
\* is held, else the outcome of the validation.  With Ok come the buffers
\* process allocated, channel_count() channels of block_size() samples, every
\* sample written by the engine; with an error, one of
\* InconsistentChannelCount, InconsistentBlockSize and OperationInProgress,
\* comes no output.
C30_ProcessIsProcessInto ==
    (returned.call = "process" /\ returned.value # Panic) =>
        /\ returned.value \in
               {OperationInProgress,
                Validate(returned.input, FreshOutput(returned.input))}
        /\ returned.value = Ok =>
               /\ ShapeOf(returned.owned) =
                      [ch \in 1..EngineChannelCount |-> EngineBlockSize]
               /\ \A ch \in 1..Len(returned.owned) :
                      \A i \in 1..Len(returned.owned[ch]) :
                          returned.owned[ch][i] \in {EngineSample, FirstBlockSample}
        /\ returned.value # Ok =>
               /\ returned.owned = NoBuffers
               /\ returned.value[1] \in {"InconsistentChannelCount",
                                         "InconsistentBlockSize",
                                         "OperationInProgress"}

\* C30 witness: process, given input whose last channel is too long, has
\* returned InconsistentBlockSize and no output.
C30_Witness ==
    /\ returned.call = "process"
    /\ ShapeOf(returned.input) = BadLastShape
    /\ returned.value =
           InconsistentBlockSize(Channels - 1, BlockSize, BlockSize + 1)
    /\ returned.owned = NoBuffers

\* C30 witness of the success: process has returned Ok and the block the
\* engine wrote after another block.
C30_WitnessOk ==
    /\ returned.call = "process"
    /\ returned.value = Ok
    /\ returned.owned = Buffers(GoodShape, EngineSample)

\* The statement a setter of the pitch scale is at after its store.
SetterPcs == {"sps_dirty", "sst_dirty", "sct_dirty"}

\* C31: the staged pitch scale is at all times the value the latest store of
\* a setter wrote, 1.0 before the first; it changes in no step but the store
\* of set_pitch_scale, called directly or by set_pitch_semitone or
\* set_pitch_cent, so that no step of process_into, reset or start_delay,
\* their flushes included, changes it; and pitch_scale() returns it, whether
\* or not it has reached the engine.
C31_StagedIsTruth ==
    /\ [](pitch_scale = lastSet)
    /\ [](returned.call = "pitch_scale" => returned.value = Value(pitch_scale))
    /\ [][\A t \in Threads :
            /\ (Steps(t) /\ pitch_scale' # pitch_scale) =>
                   (pc[t] = "idle" /\ pc'[t] \in SetterPcs)
            /\ (Steps(t) /\ (pc[t] \in GuardedPcs \cup LockPcs
                                \/ pc'[t] \in GuardedPcs \cup LockPcs)) =>
                   pitch_scale' = pitch_scale]_vars

\* C31 witness: pitch_scale() has returned the 0.5 that was set, after a
\* flush has pushed it to the engine and a block has been shifted.
C31_Witness ==
    /\ returned.call = "pitch_scale"
    /\ returned.value = Value(50)
    /\ enginePitch = 50
    /\ ~pitch_dirty
    /\ engineHistory

\* The statements at which a flush calls the engine's pitch-scale setter.
AllPushPcs == PushPcs \cup {"sd_push_early"}

\* C32: with one thread calling set_pitch_scale, a flush that has loaded
\* dirty = true pushes the argument of the latest set_pitch_scale call that
\* has stored anything, the call whose store of dirty it has seen or a later
\* one, and never a value staged before that call.
C32_NoStalePush ==
    [][\A t \in Threads :
          (Steps(t) /\ pc[t] \in AllPushPcs) => enginePitch' = lastSet]_vars

\* A flush has pushed an older value than the one of the call whose store of
\* dirty it had seen: set_pitch_scale(0.5) has returned, a flush is past its
\* push, and the engine's pitch scale is still 1.0.
C32_StalePushed ==
    /\ returned.call = "set_pitch_scale"
    /\ returned.input = <<50>>
    /\ pitch_scale = 50
    /\ enginePitch = InitialPitchScale
    /\ \E t \in Threads : pc[t] \in ClearPcs

\* The statements at which a thread is about to try or wait for the guard:
\* the call of process_into, by the caller or by process, and the lock() of
\* reset and start_delay.
AcquirePcs == {"idle", "p_call"} \cup LockPcs

\* The step of the holder t of the guard that comes next in its call.
HolderStep(t) ==
    \/ ProcessIntoValidate(t)
    \/ ProcessIntoLoadDirty(t)
    \/ ProcessIntoPush(t)
    \/ ProcessIntoClear(t)
    \/ ProcessIntoShift(t)
    \/ StartDelayLoadDirty(t)
    \/ StartDelayPush(t)
    \/ StartDelayClear(t)
    \/ StartDelayQuery(t)
    \/ ResetEngine(t)

\* The number of steps a holder of the guard at statement p is from its
\* release at most.
StepsToRelease(p) ==
    CASE p = "pi_validate" -> 5
      [] p \in {"pi_dirty", "sd_dirty"} -> 4
      [] p \in PushPcs -> 3
      [] p \in ClearPcs -> 2
      [] p \in {"pi_shift", "sd_query", "rs_reset"} -> 1
      [] OTHER -> 0

\* C33: a thread that is about to try or wait for the guard does not hold
\* it, and a step that acquires it is the only one its call makes; the
\* holder of the guard always has its next step enabled, whoever waits in
\* reset or start_delay, each of its steps brings it nearer to the release,
\* and the last one releases the guard; a thread waiting in lock() can go on
\* as soon as the guard is free.  Hence no state is a deadlock.
C33_NoSelfDeadlock ==
    /\ [](\A t \in Threads :
            /\ pc[t] \in AcquirePcs => mutex # t
            /\ mutex = t => ENABLED HolderStep(t)
            /\ (pc[t] = "rs_lock" /\ mutex = Free) => ENABLED ResetLock(t)
            /\ (pc[t] = "sd_lock" /\ mutex = Free) => ENABLED StartDelayLock(t))
    /\ [][\A t \in Threads :
            /\ (mutex # t /\ mutex' = t) =>
                   (pc[t] \in AcquirePcs /\ pc'[t] \notin AcquirePcs)
            /\ (Steps(t) /\ mutex = t) =>
                   /\ StepsToRelease(pc'[t]) < StepsToRelease(pc[t])
                   /\ StepsToRelease(pc'[t]) = 0 <=> mutex' = Free
            /\ (mutex = t /\ ~Steps(t)) => mutex' = t]_vars

\* C33 witness: the process_into that process called holds the guard in its
\* flush while another thread waits in the lock() of reset.
C33_Witness ==
    \E t, u \in Threads :
        /\ mutex = t
        /\ wrapped[t]
        /\ pc[t] = "pi_push"
        /\ pc[u] = "rs_lock"

=============================================================================
